---------------------------- MODULE Spec2Model ----------------------------
(***************************************************************************)
(* svg-to-components: the SVG parser (src/core/parser.ts), the attribute   *)
(* transformer (src/core/transformer.ts), the React and Vue generators     *)
(* (src/generators), their registry, the optimizer's configuration         *)
(* (src/core/optimizer.ts) and the command line (src/cli.ts) as a state    *)
(* machine over markup text.                                               *)
(*                                                                         *)
(* Text is a TLA+ string, read one character at a time with SubSeq; a JS   *)
(* object (Record<string, string>) is the sequence of its [name, value]    *)
(* entries in insertion order; an optional value (T | undefined) is the    *)
(* empty tuple or a one-element tuple.  A value that is read more than     *)
(* once is handed on as an operator argument, so an operator of the code   *)
(* is often a short chain of definitions, one per step.                    *)
(***************************************************************************)
EXTENDS Integers, Sequences, FiniteSets, TLC

VARIABLES
    op,           \* the entry point this run exercises
    pc,           \* the position inside it
    input,        \* the arguments the entry point was called with
    optimizedSvg, \* generate's local: what optimizeSvg returned
    ast,          \* parseSvg's local `ast`: what svgoParse returned
    parsed,       \* what parseSvg returned or threw
    serialized,   \* serializeSvgElement(parsed.root)
    reparsed,     \* parseSvg(serialized)
    jsx,          \* serializeSvgToJsx(parsed.root, props)
    rawCode,      \* generateComponent's template around jsx
    formatted,    \* formatAttribute(key, value)
    returned,     \* what a function of the parser or the transformer returned
    heap,         \* the attribute objects after the call, the tree's own first
    calls,        \* the calls so far, as [fn, arg] in the order made
    result,       \* what generate returned or threw
    maps,         \* the Maps of generators: the registry first, then each
                  \* Map getAllGenerators returned
    fs,           \* the file system
    svgPaths,     \* the command's local: what resolveInputFiles returned
    generated,    \* processAndGenerate's entries so far
    cursor        \* the file and the framework its loops stand at

vars ==
    <<op, pc, input, optimizedSvg, ast, parsed, serialized, reparsed, jsx,
      rawCode, formatted, returned, heap, calls, result, maps, fs, svgPaths,
      generated, cursor>>

\* The state of the registry and of the command line.
toolVars == <<maps, fs, svgPaths, generated, cursor>>

\* A variable that holds nothing yet.
None == [none |-> TRUE]

-----------------------------------------------------------------------------
(* Strings *)

\* String.prototype.charAt: the empty string outside the text.
Char(s, i) == IF i >= 1 /\ i <= Len(s) THEN SubSeq(s, i, i) ELSE ""

\* s.startsWith(p, i - 1)
StartsWithAt(s, i, p) ==
    /\ i >= 1
    /\ i + Len(p) - 1 <= Len(s)
    /\ SubSeq(s, i, i + Len(p) - 1) = p

\* s.includes(p)
Contains(s, p) == \E i \in 1..(Len(s) + 1) : StartsWithAt(s, i, p)

RECURSIVE IndexOfFrom(_, _, _)
\* s.indexOf(p, i - 1) + 1: the first position >= i where p starts, 0 when none.
IndexOfFrom(s, p, i) ==
    IF i + Len(p) - 1 > Len(s) THEN 0
    ELSE IF StartsWithAt(s, i, p) THEN i
    ELSE IndexOfFrom(s, p, i + 1)

RECURSIVE SkipWhile(_, _, _)
\* The first position >= i whose character is not in S (Len(s) + 1 when none).
SkipWhile(s, i, S) ==
    IF i > Len(s) \/ Char(s, i) \notin S THEN i ELSE SkipWhile(s, i + 1, S)

\* The white space of sax's isWhitespace and of the text this model reads.
Whitespace == {" ", "\n", "\t", "\r"}

RECURSIVE TrimEnd(_)
\* String.prototype.trimEnd
TrimEnd(s) ==
    IF Len(s) > 0 /\ Char(s, Len(s)) \in Whitespace
    THEN TrimEnd(SubSeq(s, 1, Len(s) - 1))
    ELSE s

\* String.prototype.trimStart
TrimStart(s) == SubSeq(s, SkipWhile(s, 1, Whitespace), Len(s))

\* String.prototype.trim
Trim(s) == TrimEnd(TrimStart(s))

LowerLetters ==
    {"a", "b", "c", "d", "e", "f", "g", "h", "i", "j", "k", "l", "m",
     "n", "o", "p", "q", "r", "s", "t", "u", "v", "w", "x", "y", "z"}

UpperLetters ==
    {"A", "B", "C", "D", "E", "F", "G", "H", "I", "J", "K", "L", "M",
     "N", "O", "P", "Q", "R", "S", "T", "U", "V", "W", "X", "Y", "Z"}

Digits == {"0", "1", "2", "3", "4", "5", "6", "7", "8", "9"}

UpperOf ==
    [c \in LowerLetters |->
        CASE c = "a" -> "A" [] c = "b" -> "B" [] c = "c" -> "C" [] c = "d" -> "D"
          [] c = "e" -> "E" [] c = "f" -> "F" [] c = "g" -> "G" [] c = "h" -> "H"
          [] c = "i" -> "I" [] c = "j" -> "J" [] c = "k" -> "K" [] c = "l" -> "L"
          [] c = "m" -> "M" [] c = "n" -> "N" [] c = "o" -> "O" [] c = "p" -> "P"
          [] c = "q" -> "Q" [] c = "r" -> "R" [] c = "s" -> "S" [] c = "t" -> "T"
          [] c = "u" -> "U" [] c = "v" -> "V" [] c = "w" -> "W" [] c = "x" -> "X"
          [] c = "y" -> "Y" [] c = "z" -> "Z"]

\* String.prototype.toUpperCase on one character.
ToUpperChar(c) == IF c \in LowerLetters THEN UpperOf[c] ELSE c

\* String.prototype.toLowerCase on one character.
ToLowerChar(c) ==
    IF c \in UpperLetters THEN CHOOSE l \in LowerLetters : UpperOf[l] = c ELSE c

RECURSIVE ToLowerCase(_)
ToLowerCase(s) ==
    IF s = "" THEN "" ELSE ToLowerChar(Char(s, 1)) \o ToLowerCase(SubSeq(s, 2, Len(s)))

\* A literal of a regular expression with the i flag, matched at position i.
MatchIgnoreCase(s, i, p) ==
    /\ i >= 1
    /\ i + Len(p) - 1 <= Len(s)
    /\ ToLowerCase(SubSeq(s, i, i + Len(p) - 1)) = ToLowerCase(p)

RECURSIVE ReplaceAll(_, _, _)
RECURSIVE ReplaceAt(_, _, _, _)

\* str.replace(/c/g, by) for a one-character pattern c.
ReplaceAll(str, c, by) == ReplaceAt(str, c, by, IndexOfFrom(str, c, 1))

\* The replacement at the first match a, and on behind it.
ReplaceAt(str, c, by, a) ==
    IF a = 0 THEN str
    ELSE SubSeq(str, 1, a - 1) \o by \o ReplaceAll(SubSeq(str, a + 1, Len(str)), c, by)

RECURSIVE Split(_, _)
RECURSIVE SplitAt(_, _, _)

\* String.prototype.split on a one-character separator.
Split(str, sep) == SplitAt(str, sep, IndexOfFrom(str, sep, 1))

SplitAt(str, sep, a) ==
    IF a = 0 THEN <<str>>
    ELSE <<SubSeq(str, 1, a - 1)>> \o Split(SubSeq(str, a + 1, Len(str)), sep)

RECURSIVE Join(_, _)
\* Array.prototype.join
Join(parts, sep) ==
    IF Len(parts) = 0 THEN ""
    ELSE IF Len(parts) = 1 THEN parts[1]
    ELSE parts[1] \o sep \o Join(Tail(parts), sep)

RECURSIVE Repeat(_, _)
\* String.prototype.repeat
Repeat(str, n) == IF n <= 0 THEN "" ELSE str \o Repeat(str, n - 1)

-----------------------------------------------------------------------------
(* Objects: Record<string, string> as its entries in insertion order *)

Keys(attrs) == {attrs[i].name : i \in 1..Len(attrs)}

Has(attrs, k) == k \in Keys(attrs)

\* attrs[k]: the value as a one-element tuple, the empty tuple for undefined.
Get(attrs, k) ==
    IF Has(attrs, k)
    THEN <<attrs[CHOOSE i \in 1..Len(attrs) : attrs[i].name = k].value>>
    ELSE <<>>

\* attrs[k] = v: a new key goes last, an old key keeps its place.
Set(attrs, k, v) ==
    IF Has(attrs, k)
    THEN [i \in 1..Len(attrs) |->
            IF attrs[i].name = k THEN [name |-> k, value |-> v] ELSE attrs[i]]
    ELSE Append(attrs, [name |-> k, value |-> v])

\* delete attrs[k]
Delete(attrs, k) == SelectSeq(attrs, LAMBDA e : e.name # k)

\* JavaScript truthiness of attrs.key: present and not the empty string.
Truthy(opt) == opt # <<>> /\ opt[1] # ""

-----------------------------------------------------------------------------
(* isValidSvg: the structural check *)

\* /<svg[^>]*(?:\/>|>[\s\S]*<\/svg>)/i.test(content): somewhere an "<svg"
\* (any case), then characters other than ">", then either "/>" or a ">"
\* with a "</svg>" (any case) anywhere after it.
isValidSvg(content) ==
    \E p \in 1..Len(content) :
        /\ MatchIgnoreCase(content, p, "<svg")
        /\ \E q \in (p + 4)..Len(content) :
              /\ \A k \in (p + 4)..(q - 1) : Char(content, k) # ">"
              /\ \/ StartsWithAt(content, q, "/>")
                 \/ /\ Char(content, q) = ">"
                    /\ \E r \in (q + 1)..Len(content) :
                          MatchIgnoreCase(content, r, "</svg>")

-----------------------------------------------------------------------------
(* svgoParse: svgo's parser, sax in strict mode with svgo's handlers.      *)
(* Every strictFail of sax makes svgo throw SvgoParserError.               *)

\* sax's nameStart and nameBody, on the characters this model reads.
NameStart == LowerLetters \cup UpperLetters \cup {"_", ":"}

NameBody == NameStart \cup Digits \cup {"-", "."}

\* sax.ENTITIES in strict mode.
XML_ENTITIES ==
    [e \in {"amp", "gt", "lt", "quot", "apos"} |->
        CASE e = "amp" -> "&" [] e = "gt" -> ">" [] e = "lt" -> "<"
          [] e = "quot" -> "\"" [] e = "apos" -> "'"]

\* String.fromCodePoint for the decimal character references this model reads.
CodePoints ==
    [e \in {"#123", "#125"} |-> CASE e = "#123" -> "{" [] e = "#125" -> "}"]

\* A strictFail: svgo's onerror throws.
SaxFail == [err |-> TRUE]

RECURSIVE saxDecode(_, _, _)

\* parseEntity: the replacement of a known entity, a strictFail otherwise.
saxParseEntity(s, acc, k, entity) ==
    IF entity \in DOMAIN XML_ENTITIES
    THEN saxDecode(s, k + 1, acc \o XML_ENTITIES[entity])
    ELSE IF entity \in DOMAIN CodePoints
    THEN saxDecode(s, k + 1, acc \o CodePoints[entity])
    ELSE SaxFail

\* The entity body from the "&" at a up to position k, which must hold ";".
saxEntityBody(s, acc, a, k) ==
    IF Char(s, k) # ";" THEN SaxFail
    ELSE saxParseEntity(s, acc, k, SubSeq(s, a + 1, k - 1))

\* The text from i up to the next "&" at a (0 when none) is kept as it is.
saxDecodeAmp(s, i, acc, a) ==
    IF a = 0 THEN [err |-> FALSE, value |-> acc \o SubSeq(s, i, Len(s))]
    ELSE saxEntityBody(s, acc \o SubSeq(s, i, a - 1), a,
                       SkipWhile(s, a + 1, NameBody \cup {"#"}))

\* The TEXT_ENTITY / ATTRIB_VALUE_ENTITY states: the text with its entities
\* replaced; a "&" that starts no known entity is a strictFail.
saxDecode(s, i, acc) == saxDecodeAmp(s, i, acc, IndexOfFrom(s, "&", i))

RECURSIVE saxAttribs(_, _, _)

\* ATTRIB_VALUE_CLOSED: the decoded value d is stored under name unless the
\* tag already has that name (the first value of a repeated name is kept).
saxAttribValueClosed(s, acc, name, close, d) ==
    IF d.err THEN SaxFail
    ELSE saxAttribs(s, close + 1,
             IF Has(acc, name) THEN acc
             ELSE Append(acc, [name |-> name, value |-> d.value]))

\* ATTRIB_VALUE_QUOTED: the value runs from the quote at q to the same quote
\* at close (0 when the text ends first).
saxAttribValueQuoted(s, acc, name, q, close) ==
    IF close = 0 THEN SaxFail
    ELSE saxAttribValueClosed(s, acc, name, close,
             saxDecode(SubSeq(s, q + 1, close - 1), 1, ""))

\* ATTRIB_VALUE: position q must hold a quote.
saxAttribValue(s, acc, name, q) ==
    IF Char(s, q) \notin {"\"", "'"} THEN SaxFail
    ELSE saxAttribValueQuoted(s, acc, name, q, IndexOfFrom(s, Char(s, q), q + 1))

\* ATTRIB_NAME_SAW_WHITE: position e must hold "=".
saxAttribNameSawWhite(s, acc, name, e) ==
    IF Char(s, e) # "=" THEN SaxFail
    ELSE saxAttribValue(s, acc, name, SkipWhile(s, e + 1, Whitespace))

\* ATTRIB_NAME: the name runs from j to k - 1.
saxAttribName(s, acc, j, k) ==
    saxAttribNameSawWhite(s, acc, SubSeq(s, j, k - 1), SkipWhile(s, k, Whitespace))

\* ATTRIB: at j, the first position after the white space that starts at i.
saxAttrib(s, i, acc, j) ==
    IF Char(s, j) = ">"
    THEN [err |-> FALSE, attributes |-> acc, pos |-> j + 1, selfClosing |-> FALSE]
    ELSE IF StartsWithAt(s, j, "/>")
    THEN [err |-> FALSE, attributes |-> acc, pos |-> j + 2, selfClosing |-> TRUE]
    ELSE IF j = i \/ Char(s, j) \notin NameStart THEN SaxFail
    ELSE saxAttribName(s, acc, j, SkipWhile(s, j, NameBody))

\* The attributes of an open tag from position i up to ">" or "/>".
saxAttribs(s, i, acc) == saxAttrib(s, i, acc, SkipWhile(s, i, Whitespace))

\* svgo's textElems: the elements whose text keeps its white space.
textElems ==
    {"a", "altGlyph", "altGlyphDef", "altGlyphItem", "glyph", "glyphRef",
     "text", "textPath", "tref", "tspan", "pre", "title"}

\* svgo's sax.ontext inside element `current`: verbatim in a textElems
\* element, trimmed elsewhere, and nothing for white space elsewhere.
svgoOnText(text, current) ==
    IF text = "" THEN <<>>
    ELSE IF current \in textElems THEN <<[type |-> "text", value |-> text]>>
    ELSE IF Trim(text) # "" THEN <<[type |-> "text", value |-> Trim(text)]>>
    ELSE <<>>

RECURSIVE saxContent(_, _, _, _)

\* sax.oncomment: the comment from i to the "--" at e, which ">" must follow.
saxComment(s, i, parent, acc, e) ==
    IF e = 0 \/ Char(s, e + 2) # ">" THEN SaxFail
    ELSE saxContent(s, e + 3, parent,
             Append(acc, [type |-> "comment", value |-> Trim(SubSeq(s, i + 4, e - 1))]))

\* sax.oncdata: the section from i to the "]]>" at e.
saxCdata(s, i, parent, acc, e) ==
    IF e = 0 THEN SaxFail
    ELSE saxContent(s, e + 3, parent,
             Append(acc, [type |-> "cdata", value |-> SubSeq(s, i + 9, e - 1)]))

\* sax.ondoctype: the declaration from i to the ">" at e; a strictFail once
\* the root element has been seen.
saxDoctype(s, i, parent, acc, e) ==
    IF \/ e = 0
       \/ parent # ""
       \/ \E n \in 1..Len(acc) : acc[n].type = "element"
    THEN SaxFail
    ELSE saxContent(s, e + 1, parent,
             Append(acc, [type |-> "doctype", name |-> "svg",
                          data |-> [doctype |-> SubSeq(s, i + 9, e - 1)]]))

\* sax.onprocessinginstruction: name from i + 2 to n - 1, body from b, up to
\* the "?>" at e.
saxProcInst(s, i, parent, acc, e, n) ==
    IF e = 0 \/ n > e \/ SkipWhile(s, n, Whitespace) > e THEN SaxFail
    ELSE saxContent(s, e + 2, parent,
             Append(acc, [type |-> "instruction",
                          name |-> SubSeq(s, i + 2, n - 1),
                          value |-> SubSeq(s, SkipWhile(s, n, Whitespace), e - 1)]))

\* sax.onopentag .. onclosetag done: the element el joins the content.
saxChild(s, parent, acc, el) ==
    IF el.err THEN SaxFail ELSE saxContent(s, el.pos, parent, Append(acc, el.node))

\* closeText: the raw text up to j, decoded as d. Outside the root only
\* white space is allowed, and svgo records none of it.
saxCloseText(s, j, parent, acc, raw, d) ==
    IF d.err THEN SaxFail
    ELSE IF parent = ""
    THEN IF Trim(raw) # "" THEN SaxFail ELSE saxContent(s, j, parent, acc)
    ELSE saxContent(s, j, parent, acc \o svgoOnText(d.value, parent))

\* The TEXT state: the text from i up to j, the next "<" or the end.
saxText(s, i, j, parent, acc) ==
    saxCloseText(s, j, parent, acc, SubSeq(s, i, j - 1),
                 saxDecode(SubSeq(s, i, j - 1), 1, ""))

\* The end of the text when it holds no "<" after all.
saxTextEnd(s, lt) == IF lt = 0 THEN Len(s) + 1 ELSE lt

\* CLOSE_TAG: "</name", white space up to g, ">"; the element is complete.
\* A close tag of another name is a strictFail.
saxCloseTag(s, name, attributes, c, g) ==
    IF StartsWithAt(s, c.pos, "</" \o name) /\ Char(s, g) = ">"
    THEN [err |-> FALSE, pos |-> g + 1,
          node |-> [type |-> "element", name |-> name,
                    attributes |-> attributes, children |-> c.children]]
    ELSE SaxFail

\* The content c of the element just opened, then its close tag.
saxElementContent(s, name, attributes, c) ==
    IF c.err THEN SaxFail
    ELSE saxCloseTag(s, name, attributes, c,
                     SkipWhile(s, c.pos + Len(name) + 2, Whitespace))

\* openTag: a self-closing tag is complete, any other has content.
saxOpenTag(s, name, a) ==
    IF a.err THEN SaxFail
    ELSE IF a.selfClosing
    THEN [err |-> FALSE, pos |-> a.pos,
          node |-> [type |-> "element", name |-> name,
                    attributes |-> a.attributes, children |-> <<>>]]
    ELSE saxElementContent(s, name, a.attributes, saxContent(s, a.pos, name, <<>>))

\* OPEN_TAG: the name runs from i + 1 to n - 1, the attributes follow.
saxOpenTagName(s, i, n) ==
    saxOpenTag(s, SubSeq(s, i + 1, n - 1), saxAttribs(s, n, <<>>))

\* The element whose open tag starts at position i, with its content and
\* its close tag.
saxElement(s, i) == saxOpenTagName(s, i, SkipWhile(s, i + 1, NameBody))

\* The nodes from position i up to the next close tag or the end of the
\* text; parent is the open element's name, "" at the top level.
saxContent(s, i, parent, acc) ==
    IF i > Len(s) \/ StartsWithAt(s, i, "</")
    THEN [err |-> FALSE, children |-> acc, pos |-> i]
    ELSE IF StartsWithAt(s, i, "<!--")
    THEN saxComment(s, i, parent, acc, IndexOfFrom(s, "--", i + 4))
    ELSE IF StartsWithAt(s, i, "<![CDATA[")
    THEN saxCdata(s, i, parent, acc, IndexOfFrom(s, "]]>", i + 9))
    ELSE IF MatchIgnoreCase(s, i, "<!DOCTYPE")
    THEN saxDoctype(s, i, parent, acc, IndexOfFrom(s, ">", i + 9))
    ELSE IF StartsWithAt(s, i, "<?")
    THEN saxProcInst(s, i, parent, acc, IndexOfFrom(s, "?>", i + 2),
                     SkipWhile(s, i + 2, NameBody))
    ELSE IF Char(s, i) = "<"
    THEN IF Char(s, i + 1) \notin NameStart THEN SaxFail
         ELSE saxChild(s, parent, acc, saxElement(s, i))
    ELSE saxText(s, i, saxTextEnd(s, IndexOfFrom(s, "<", i)), parent, acc)

\* sax.onend: the whole text must have been read.
svgoRoot(svg, c) ==
    IF c.err \/ c.pos <= Len(svg) THEN SaxFail
    ELSE [err |-> FALSE, type |-> "root", children |-> c.children]

\* svgoParser.parseSvg(svg): the XastRoot, or SvgoParserError thrown.
svgoParse(svg) == svgoRoot(svg, saxContent(svg, 1, "", <<>>))

-----------------------------------------------------------------------------
(* parseSvg *)

InvalidDocument == "Invalid SVG content: missing <svg> element"

MissingRootElement == "Could not find SVG element in parsed content"

\* The error svgo's parser throws through parseSvg on malformed markup.
SvgoParserError == "SvgoParserError"

\* A thrown Error with this message.
Throw(message) == [ok |-> FALSE, error |-> message]

RECURSIVE findSvgElementFrom(_, _)
RECURSIVE findSvgElementFromAnyCase(_, _)
\* Variant of findSvgElement's loop that compares the name without case.
findSvgElementFromAnyCase(children, i) ==
    IF i > Len(children) THEN <<>>
    ELSE IF children[i].type = "element" /\ ToLowerCase(children[i].name) = "svg"
    THEN <<children[i]>>
    ELSE findSvgElementFromAnyCase(children, i + 1)

\* The loop of findSvgElement from child i on.
findSvgElementFrom(children, i) ==
    IF i > Len(children) THEN <<>>
    ELSE IF children[i].type = "element" /\ children[i].name = "svg"
    THEN <<children[i]>>
    ELSE findSvgElementFrom(children, i + 1)

\* The first top-level child that is an element named svg, or null (<<>>).
findSvgElement(root) == findSvgElementFrom(root.children, 1)

RECURSIVE convertToSvgElement(_)
RECURSIVE convertChildren(_, _, _)

\* Variant of convertChild that stores the trimmed value.
convertChildTrimmed(child) ==
    IF child.type = "element" THEN <<convertToSvgElement(child)>>
    ELSE IF child.type = "text" /\ Trim(child.value) # ""
    THEN <<[name |-> "#text", type |-> "text", attributes |-> <<>>,
            children |-> <<>>, value |-> Trim(child.value)]>>
    ELSE <<>>

\* An element child converts to an element, a text child with a non-empty
\* trimmed value to a text node holding child.value, anything else to null.
convertChild(child) ==
    IF child.type = "element" THEN <<convertToSvgElement(child)>>
    ELSE IF child.type = "text" /\ Trim(child.value) # ""
    THEN <<[name |-> "#text", type |-> "text", attributes |-> <<>>,
            children |-> <<>>, value |-> child.value]>>
    ELSE <<>>

\* The loop of convertToSvgElement: push every converted child that is not null.
convertChildren(children, i, acc) ==
    IF i > Len(children) THEN acc
    ELSE convertChildren(children, i + 1, acc \o convertChild(children[i]))

convertToSvgElement(element) ==
    [name |-> element.name, type |-> "element",
     attributes |-> element.attributes,
     children |-> convertChildren(element.children, 1, <<>>)]

\* Variant of parseSvg's return value that reads width where height is meant.
ParsedSvgHeightFromWidth(svgElement) ==
    [ok |-> TRUE,
     root |-> convertToSvgElement(svgElement),
     viewBox |-> Get(svgElement.attributes, "viewBox"),
     width |-> Get(svgElement.attributes, "width"),
     height |-> Get(svgElement.attributes, "width")]

\* parseSvg's return value once the svg element is found.
ParsedSvg(svgElement) ==
    [ok |-> TRUE,
     root |-> convertToSvgElement(svgElement),
     viewBox |-> Get(svgElement.attributes, "viewBox"),
     width |-> Get(svgElement.attributes, "width"),
     height |-> Get(svgElement.attributes, "height")]

\* parseSvg after findSvgElement: null throws, an element is converted.
parseSvgFound(tree, svgElement) ==
    IF svgElement = <<>>
    THEN [ast |-> tree, result |-> Throw(MissingRootElement)]
    ELSE [ast |-> tree, result |-> ParsedSvg(svgElement[1])]

\* parseSvg after svgoParse: the parser's error goes through to the caller.
parseSvgAst(tree) ==
    IF tree.err
    THEN [ast |-> None, result |-> Throw(SvgoParserError)]
    ELSE parseSvgFound(tree, findSvgElement(tree))

\* Variant of parseSvg that leaves the structural check out.
parseSvgWithAstUnchecked(svgContent) == parseSvgAst(svgoParse(svgContent))

\* parseSvg(svgContent) with the ast it built on the way (None before any).
parseSvgWithAst(svgContent) ==
    IF ~isValidSvg(svgContent)
    THEN [ast |-> None, result |-> Throw(InvalidDocument)]
    ELSE parseSvgAst(svgoParse(svgContent))

parseSvg(svgContent) == parseSvgWithAst(svgContent).result

-----------------------------------------------------------------------------
(* serializeSvgElement *)

\* Variant of escapeXml that replaces the ampersand last.
escapeXmlAmpersandLast(str) ==
    ReplaceAll(ReplaceAll(ReplaceAll(ReplaceAll(ReplaceAll(str,
        "<", "&lt;"), ">", "&gt;"), "\"", "&quot;"), "'", "&apos;"), "&", "&amp;")

\* escapeXml: the five replacements, applied one after the other.
escapeXml(str) ==
    ReplaceAll(ReplaceAll(ReplaceAll(ReplaceAll(ReplaceAll(str,
        "&", "&amp;"), "<", "&lt;"), ">", "&gt;"), "\"", "&quot;"), "'", "&apos;")

\* Object.entries(attributes).map(key="escaped value").join(" ")
serializeAttrs(attributes) ==
    Join([i \in 1..Len(attributes) |->
             attributes[i].name \o "=\"" \o escapeXml(attributes[i].value) \o "\""],
         " ")

\* The open tag without its closing bracket.
serializeOpenTag(name, attrs) ==
    IF attrs # "" THEN "<" \o name \o " " \o attrs ELSE "<" \o name

RECURSIVE serializeSvgElement(_, _)

\* Variant of the element's text whose children stay at the element's level.
serializeWithFlat(element, indent, indentStr, openTag) ==
    IF Len(element.children) = 0 THEN indentStr \o openTag \o " />"
    ELSE indentStr \o openTag \o ">\n"
            \o Join([i \in 1..Len(element.children) |->
                        serializeSvgElement(element.children[i], indent)], "\n")
            \o "\n" \o indentStr \o "</" \o element.name \o ">"

\* The element once indentStr and openTag are known.
serializeWith(element, indent, indentStr, openTag) ==
    IF Len(element.children) = 0 THEN indentStr \o openTag \o " />"
    ELSE indentStr \o openTag \o ">\n"
            \o Join([i \in 1..Len(element.children) |->
                        serializeSvgElement(element.children[i], indent + 1)], "\n")
            \o "\n" \o indentStr \o "</" \o element.name \o ">"

serializeSvgElement(element, indent) ==
    IF element.type = "text" THEN element.value
    ELSE serializeWith(element, indent, Repeat("  ", indent),
             serializeOpenTag(element.name, serializeAttrs(element.attributes)))

-----------------------------------------------------------------------------
(* The attribute transformer *)

\* The translation table, as its [from, to] entries in source order.
SVG_TO_REACT_ATTRS ==
    <<<<"accent-height", "accentHeight">>,
       <<"alignment-baseline", "alignmentBaseline">>,
       <<"arabic-form", "arabicForm">>,
       <<"baseline-shift", "baselineShift">>,
       <<"cap-height", "capHeight">>,
       <<"clip-path", "clipPath">>,
       <<"clip-rule", "clipRule">>,
       <<"color-interpolation", "colorInterpolation">>,
       <<"color-interpolation-filters", "colorInterpolationFilters">>,
       <<"color-profile", "colorProfile">>,
       <<"color-rendering", "colorRendering">>,
       <<"dominant-baseline", "dominantBaseline">>,
       <<"enable-background", "enableBackground">>,
       <<"fill-opacity", "fillOpacity">>,
       <<"fill-rule", "fillRule">>,
       <<"flood-color", "floodColor">>,
       <<"flood-opacity", "floodOpacity">>,
       <<"font-family", "fontFamily">>,
       <<"font-size", "fontSize">>,
       <<"font-size-adjust", "fontSizeAdjust">>,
       <<"font-stretch", "fontStretch">>,
       <<"font-style", "fontStyle">>,
       <<"font-variant", "fontVariant">>,
       <<"font-weight", "fontWeight">>,
       <<"glyph-name", "glyphName">>,
       <<"glyph-orientation-horizontal", "glyphOrientationHorizontal">>,
       <<"glyph-orientation-vertical", "glyphOrientationVertical">>,
       <<"horiz-adv-x", "horizAdvX">>,
       <<"horiz-origin-x", "horizOriginX">>,
       <<"image-rendering", "imageRendering">>,
       <<"letter-spacing", "letterSpacing">>,
       <<"lighting-color", "lightingColor">>,
       <<"marker-end", "markerEnd">>,
       <<"marker-mid", "markerMid">>,
       <<"marker-start", "markerStart">>,
       <<"overline-position", "overlinePosition">>,
       <<"overline-thickness", "overlineThickness">>,
       <<"paint-order", "paintOrder">>,
       <<"panose-1", "panose1">>,
       <<"pointer-events", "pointerEvents">>,
       <<"rendering-intent", "renderingIntent">>,
       <<"shape-rendering", "shapeRendering">>,
       <<"stop-color", "stopColor">>,
       <<"stop-opacity", "stopOpacity">>,
       <<"strikethrough-position", "strikethroughPosition">>,
       <<"strikethrough-thickness", "strikethroughThickness">>,
       <<"stroke-dasharray", "strokeDasharray">>,
       <<"stroke-dashoffset", "strokeDashoffset">>,
       <<"stroke-linecap", "strokeLinecap">>,
       <<"stroke-linejoin", "strokeLinejoin">>,
       <<"stroke-miterlimit", "strokeMiterlimit">>,
       <<"stroke-opacity", "strokeOpacity">>,
       <<"stroke-width", "strokeWidth">>,
       <<"text-anchor", "textAnchor">>,
       <<"text-decoration", "textDecoration">>,
       <<"text-rendering", "textRendering">>,
       <<"underline-position", "underlinePosition">>,
       <<"underline-thickness", "underlineThickness">>,
       <<"unicode-bidi", "unicodeBidi">>,
       <<"unicode-range", "unicodeRange">>,
       <<"units-per-em", "unitsPerEm">>,
       <<"v-alphabetic", "vAlphabetic">>,
       <<"v-hanging", "vHanging">>,
       <<"v-ideographic", "vIdeographic">>,
       <<"v-mathematical", "vMathematical">>,
       <<"vert-adv-y", "vertAdvY">>,
       <<"vert-origin-x", "vertOriginX">>,
       <<"vert-origin-y", "vertOriginY">>,
       <<"word-spacing", "wordSpacing">>,
       <<"writing-mode", "writingMode">>,
       <<"x-height", "xHeight">>,
       <<"xlink:actuate", "xlinkActuate">>,
       <<"xlink:arcrole", "xlinkArcrole">>,
       <<"xlink:href", "xlinkHref">>,
       <<"xlink:role", "xlinkRole">>,
       <<"xlink:show", "xlinkShow">>,
       <<"xlink:title", "xlinkTitle">>,
       <<"xlink:type", "xlinkType">>,
       <<"xml:base", "xmlBase">>,
       <<"xml:lang", "xmlLang">>,
       <<"xml:space", "xmlSpace">>,
       <<"xmlns", "xmlns">>,
       <<"xmlns:xlink", "xmlnsXlink">>,
       <<"class", "className">>>>

\* What the table, an object literal, inherits from Object.prototype: a
\* property read finds these members too. Each is a function, written here
\* as the string String() makes of it, which is also the key it becomes in
\* transformed[newKey] = value.
ObjectPrototype ==
    <<<<"constructor", "function Object() { [native code] }">>,
      <<"toString", "function toString() { [native code] }">>,
      <<"valueOf", "function valueOf() { [native code] }">>,
      <<"hasOwnProperty", "function hasOwnProperty() { [native code] }">>>>

\* table[attrName] among the entries `hits` that carry the key: the empty
\* tuple (undefined) when there is none.
TableEntry(table, hits) ==
    IF hits = {} THEN <<>> ELSE <<table[CHOOSE i \in hits : TRUE][2]>>

TableLookup(table, attrName) ==
    TableEntry(table, {i \in 1..Len(table) : table[i][1] = attrName})

\* SVG_TO_REACT_ATTRS[attrName] || attrName
MappedOrSame(mapped, attrName) ==
    IF mapped # <<>> /\ mapped[1] # "" THEN mapped[1] ELSE attrName

transformAttributeName(attrName, framework) ==
    IF framework = "react"
    THEN MappedOrSame(TableLookup(SVG_TO_REACT_ATTRS \o ObjectPrototype, attrName),
                      attrName)
    ELSE attrName

RECURSIVE transformAttributesFrom(_, _, _, _)

\* Variant of the loop that keeps the value a key was first given.
transformAttributesFromKeepFirst(attributes, framework, i, transformed) ==
    IF i > Len(attributes) THEN transformed
    ELSE transformAttributesFrom(attributes, framework, i + 1,
             IF Has(transformed, transformAttributeName(attributes[i].name, framework))
             THEN transformed
             ELSE Set(transformed, transformAttributeName(attributes[i].name, framework),
                      attributes[i].value))

\* The loop of transformAttributes: transformed[newKey] = value, entry by entry.
transformAttributesFrom(attributes, framework, i, transformed) ==
    IF i > Len(attributes) THEN transformed
    ELSE transformAttributesFrom(attributes, framework, i + 1,
             Set(transformed, transformAttributeName(attributes[i].name, framework),
                 attributes[i].value))

transformAttributes(attributes, framework) ==
    transformAttributesFrom(attributes, framework, 1, <<>>)

-----------------------------------------------------------------------------
(* ReactGenerator: formatAttribute and parseStyleToObject *)

RECURSIVE camelCase(_)

\* The replacement at the first "-" (at a, 0 when none): a lower-case letter
\* behind it is taken with it and upper-cased.
camelCaseAt(property, a) ==
    IF a = 0 THEN property
    ELSE IF Char(property, a + 1) \in LowerLetters
    THEN SubSeq(property, 1, a - 1) \o ToUpperChar(Char(property, a + 1))
             \o camelCase(SubSeq(property, a + 2, Len(property)))
    ELSE SubSeq(property, 1, a) \o camelCase(SubSeq(property, a + 1, Len(property)))

\* property.replace(/-([a-z])/g, (_, letter) => letter.toUpperCase())
camelCase(property) == camelCaseAt(property, IndexOfFrom(property, "-", 1))

\* The canonical decimal form from position a (after the sign): digits up to
\* b, then nothing or a fraction up to the end that does not end in 0.
canonicalDecimal(value, a, b) ==
    /\ b > a
    /\ Char(value, a) = "0" => b = a + 1
    /\ value # "-0"
    /\ Len(value) - a < 16
    /\ \/ b > Len(value)
       \/ /\ Char(value, b) = "."
          /\ SkipWhile(value, b + 1, Digits) > b + 1
          /\ SkipWhile(value, b + 1, Digits) > Len(value)
          /\ Char(value, Len(value)) # "0"
          /\ SubSeq(value, a, b - 1) = "0" =>
                SkipWhile(value, b + 1, {"0"}) - (b + 1) < 6

\* The position after an optional leading minus.
afterSign(value) == IF Char(value, 1) = "-" THEN 2 ELSE 1

\* Variant of the number test that asks only whether the value begins like a
\* number, and not whether it is printed back the same.
roundTripsAsNumberByPrefix(value) ==
    \/ value \in {"Infinity", "-Infinity"}
    \/ SkipWhile(value, afterSign(value), Digits) > afterSign(value)

\* !isNaN(parseFloat(value)) && value === String(parseFloat(value)), for the
\* values String prints without an exponent (up to 15 significant digits):
\* an optional minus, an integer part without leading zeros, an optional
\* fraction that does not end in 0, not "-0", and Infinity.
roundTripsAsNumber(value) ==
    \/ value \in {"Infinity", "-Infinity"}
    \/ canonicalDecimal(value, afterSign(value),
                        SkipWhile(value, afterSign(value), Digits))

RECURSIVE parseStyleFrom(_, _, _)

\* One declaration with its trimmed property and value: kept when both are
\* non-empty, as [number |-> TRUE/FALSE, text |-> the trimmed value].
parseStyleEntry(styles, i, styleObj, property, value) ==
    IF property = "" \/ value = ""
    THEN parseStyleFrom(styles, i + 1, styleObj)
    ELSE parseStyleFrom(styles, i + 1,
             Set(styleObj, camelCase(property),
                 [number |-> roundTripsAsNumber(value), text |-> value]))

\* Variant of the declaration step that leaves the loop at a declaration
\* without a colon.
parseStyleDeclarationOrStop(styles, i, styleObj, style, colonIndex) ==
    IF colonIndex = 0 THEN styleObj
    ELSE parseStyleEntry(styles, i, styleObj,
             Trim(SubSeq(style, 1, colonIndex - 1)),
             Trim(SubSeq(style, colonIndex + 1, Len(style))))

\* One declaration with the position of its first colon (0 when none).
parseStyleDeclaration(styles, i, styleObj, style, colonIndex) ==
    IF colonIndex = 0 THEN parseStyleFrom(styles, i + 1, styleObj)
    ELSE parseStyleEntry(styles, i, styleObj,
             Trim(SubSeq(style, 1, colonIndex - 1)),
             Trim(SubSeq(style, colonIndex + 1, Len(style))))

\* The loop of parseStyleToObject over the declarations.
parseStyleFrom(styles, i, styleObj) ==
    IF i > Len(styles) THEN styleObj
    ELSE parseStyleDeclaration(styles, i, styleObj, styles[i],
                               IndexOfFrom(styles[i], ":", 1))

parseStyleToObject(styleString) ==
    parseStyleFrom(SelectSeq(Split(styleString, ";"), LAMBDA d : d # ""), 1, <<>>)

\* JSON.stringify of a string: quoted, with \ " and the line breaks escaped.
JSONString(str) ==
    "\"" \o ReplaceAll(ReplaceAll(ReplaceAll(ReplaceAll(ReplaceAll(str,
        "\\", "\\\\"), "\"", "\\\""), "\n", "\\n"), "\t", "\\t"), "\r", "\\r") \o "\""

\* JSON.stringify of a style value: a number prints as itself, Infinity as null.
JSONValue(v) ==
    IF ~v.number THEN JSONString(v.text)
    ELSE IF v.text \in {"Infinity", "-Infinity"} THEN "null"
    ELSE v.text

\* JSON.stringify(styleObj)
JSONStringify(styleObj) ==
    "{" \o Join([i \in 1..Len(styleObj) |->
                    JSONString(styleObj[i].name) \o ":" \o JSONValue(styleObj[i].value)],
                ",") \o "}"

\* -?\d+(\.\d+)? from position a (after the sign): digits up to b, then the
\* end or a dot and digits up to the end.
numericFrom(value, a, b) ==
    /\ b > a
    /\ \/ b > Len(value)
       \/ /\ Char(value, b) = "."
          /\ SkipWhile(value, b + 1, Digits) > b + 1
          /\ SkipWhile(value, b + 1, Digits) > Len(value)

\* /^-?\d+(\.\d+)?$/.test(value)
numericPattern(value) ==
    numericFrom(value, afterSign(value), SkipWhile(value, afterSign(value), Digits))

\* The escaping of formatAttribute: & " < > and nothing else.
escapeAttributeValue(value) ==
    ReplaceAll(ReplaceAll(ReplaceAll(ReplaceAll(value,
        "&", "&amp;"), "\"", "&quot;"), "<", "&lt;"), ">", "&gt;")

\* Variant of formatAttribute that tests the numeric pattern before the name.
formatAttributeNumericFirst(key, value) ==
    IF numericPattern(value)
    THEN key \o "={" \o value \o "}"
    ELSE IF key = "style"
    THEN "style={" \o JSONStringify(parseStyleToObject(value)) \o "}"
    ELSE key \o "=\"" \o escapeAttributeValue(value) \o "\""

formatAttribute(key, value) ==
    IF key = "style"
    THEN "style={" \o JSONStringify(parseStyleToObject(value)) \o "}"
    ELSE IF numericPattern(value)
    THEN key \o "={" \o value \o "}"
    ELSE key \o "=\"" \o escapeAttributeValue(value) \o "\""

-----------------------------------------------------------------------------
(* ReactGenerator: the JSX emitter *)

\* Object.entries(attrs).map(([key, value]) => this.formatAttribute(key, value))
formatEntries(attrs) ==
    [i \in 1..Len(attrs) |-> formatAttribute(attrs[i].name, attrs[i].value)]

RECURSIVE serializeChildJsx(_, _)

\* element.children.map((child) => this.serializeChildJsx(child, indent + "  "))
\*     .join("\n")
childrenJsx(children, indent) ==
    Join([i \in 1..Len(children) |-> serializeChildJsx(children[i], indent \o "  ")],
         "\n")

\* attrParts.length > 0 ? ` ${attrParts.join(" ")}` : ""
attrsStrOf(attrParts) ==
    IF Len(attrParts) > 0 THEN " " \o Join(attrParts, " ") ELSE ""

\* serializeChildJsx for an element, once its open tag is built.
serializeChildElement(element, indent, openTag) ==
    IF Len(element.children) = 0 THEN indent \o openTag \o " />"
    ELSE indent \o openTag \o ">\n" \o childrenJsx(element.children, indent)
            \o "\n" \o indent \o "</" \o element.name \o ">"

\* Variant of serializeChildJsx that spreads the props on every svg element.
serializeChildJsxSpread(element, indent) ==
    IF element.type = "text" THEN indent \o element.value
    ELSE serializeChildElement(element, indent,
             "<" \o element.name
                 \o attrsStrOf(formatEntries(
                        transformAttributes(element.attributes, "react"))
                        \o (IF element.name = "svg" THEN <<"{...props}">> ELSE <<>>)))

serializeChildJsx(element, indent) ==
    IF element.type = "text" THEN indent \o element.value
    ELSE serializeChildElement(element, indent,
             "<" \o element.name
                 \o attrsStrOf(formatEntries(
                        transformAttributes(element.attributes, "react"))))

\* if (attrs.width || attrs.height): both keys are deleted.
deleteSize(attrs) ==
    IF Truthy(Get(attrs, "width")) \/ Truthy(Get(attrs, "height"))
    THEN Delete(Delete(attrs, "width"), "height")
    ELSE attrs

\* if (attrs.fill && attrs.fill !== "none")
fillRewritten(attrs) == Truthy(Get(attrs, "fill")) /\ Get(attrs, "fill") # <<"none">>

\* attrs after the fill branch: fill is deleted when it is rewritten.
deleteFill(attrs) == IF fillRewritten(attrs) THEN Delete(attrs, "fill") ELSE attrs

\* Variant of buildRootSvgJsx's attrParts that pushes the spread before the
\* remaining attributes.
rootAttrPartsSpreadFirst(sized) ==
    <<"width={size}", "height={size}">>
        \o (IF fillRewritten(sized) THEN <<"fill={color}">> ELSE <<>>)
        \o <<"{...props}">>
        \o formatEntries(deleteFill(sized))

\* buildRootSvgJsx's attrParts over attrs after the size branch: the size
\* props, fill={color} when fill is rewritten, the remaining attributes, and
\* the spread last.
rootAttrPartsSized(sized) ==
    <<"width={size}", "height={size}">>
        \o (IF fillRewritten(sized) THEN <<"fill={color}">> ELSE <<>>)
        \o formatEntries(deleteFill(sized))
        \o <<"{...props}">>

rootAttrParts(attrs) == rootAttrPartsSized(deleteSize(attrs))

\* Both builders return their text; attrParts and openTag are kept beside it.
buildRootSvgJsxWith(element, indent, attrParts, openTag) ==
    [attrParts |-> attrParts, openTag |-> openTag,
     text |-> IF Len(element.children) = 0 THEN indent \o openTag \o " />"
              ELSE indent \o openTag \o ">\n" \o childrenJsx(element.children, indent)
                      \o "\n" \o indent \o "</svg>"]

\* The open tag of the root from its attrParts.
buildRootSvgJsxParts(element, indent, attrParts) ==
    buildRootSvgJsxWith(element, indent, attrParts, "<svg " \o Join(attrParts, " "))

buildRootSvgJsx(element, attrs, indent) ==
    buildRootSvgJsxParts(element, indent, rootAttrParts(attrs))

buildElementJsxWith(element, indent, attrParts, openTag) ==
    [attrParts |-> attrParts, openTag |-> openTag,
     text |-> IF Len(element.children) = 0 THEN indent \o openTag \o " />"
              ELSE indent \o openTag \o ">\n" \o childrenJsx(element.children, indent)
                      \o "\n" \o indent \o "</" \o element.name \o ">"]

\* The open tag of an element from its attrParts.
buildElementJsxParts(element, indent, attrParts) ==
    buildElementJsxWith(element, indent, attrParts,
                        "<" \o element.name \o attrsStrOf(attrParts))

buildElementJsx(element, attrs, indent) ==
    buildElementJsxParts(element, indent, formatEntries(attrs))

\* Variant of serializeSvgToJsx that takes the root branch without props too.
serializeSvgToJsxAlwaysRoot(element, includeProps, indent, attrs) ==
    IF element.name = "svg"
    THEN buildRootSvgJsx(element, attrs, indent)
    ELSE buildElementJsx(element, attrs, indent)

\* serializeSvgToJsx once the attributes are transformed.
serializeSvgToJsxWith(element, includeProps, indent, attrs) ==
    IF element.name = "svg" /\ includeProps
    THEN buildRootSvgJsx(element, attrs, indent)
    ELSE buildElementJsx(element, attrs, indent)

serializeSvgToJsx(element, includeProps) ==
    IF element.type = "text"
    THEN [attrParts |-> <<>>, openTag |-> "", text |-> element.value]
    ELSE serializeSvgToJsxWith(element, includeProps, "    ",
                               transformAttributes(element.attributes, "react"))

\* The two template literals of generateComponent around jsxContent.
generateComponent(name, jsxContent, includeProps) ==
    IF ~includeProps
    THEN "export function " \o name \o "() {\n"
             \o "                return (" \o jsxContent \o ");\n"
             \o "                }\n"
             \o "              "
    ELSE "import type { SVGProps } from \"react\";\n\n"
             \o "            interface " \o name \o "Props extends SVGProps<SVGSVGElement> {\n"
             \o "              size?: number | string;\n"
             \o "              color?: string;\n"
             \o "            }\n\n"
             \o "            export function " \o name \o "({\n"
             \o "              size = 24,\n"
             \o "              color = \"currentColor\",\n"
             \o "              ...props\n"
             \o "            }: " \o name \o "Props) {\n"
             \o "              return (\n"
             \o "            " \o jsxContent \o "\n"
             \o "              );\n"
             \o "            }"


-----------------------------------------------------------------------------
(* The transformer's style parsers and JSX serializer *)

RECURSIVE transformStyleFrom(_, _, _)

\* One declaration of transformStyleToReact, split at its colons: property
\* and value are the first two parts, trimmed; the entry is kept when both
\* are non-empty (a missing part is undefined).
transformStyleParts(styles, i, styleObj, parts) ==
    IF Len(parts) < 2 \/ Trim(parts[1]) = "" \/ Trim(parts[2]) = ""
    THEN transformStyleFrom(styles, i + 1, styleObj)
    ELSE transformStyleFrom(styles, i + 1,
             Set(styleObj, camelCase(Trim(parts[1])),
                 [number |-> FALSE, text |-> Trim(parts[2])]))

\* The loop of transformStyleToReact over the declarations.
transformStyleFrom(styles, i, styleObj) ==
    IF i > Len(styles) THEN styleObj
    ELSE transformStyleParts(styles, i, styleObj, Split(styles[i], ":"))

\* transformStyleToReact's styleObj, before JSON.stringify.
transformStyleObject(styleString) ==
    transformStyleFrom(SelectSeq(Split(styleString, ";"), LAMBDA d : d # ""), 1, <<>>)

transformStyleToReact(styleString) == JSONStringify(transformStyleObject(styleString))

\* parseStyleString: the same statements as ReactGenerator.parseStyleToObject.
parseStyleString(styleString) ==
    parseStyleFrom(SelectSeq(Split(styleString, ";"), LAMBDA d : d # ""), 1, <<>>)

\* /^-?\d+(\.\d+)?$/.test(value)
isNumericValue(value) ==
    numericFrom(value, afterSign(value), SkipWhile(value, afterSign(value), Digits))

\* escapeJsxAttribute: the six replacements, applied one after the other.
escapeJsxAttribute(str) ==
    ReplaceAll(ReplaceAll(ReplaceAll(ReplaceAll(ReplaceAll(ReplaceAll(str,
        "&", "&amp;"), "\"", "&quot;"), "<", "&lt;"), ">", "&gt;"),
        "{", "&#123;"), "}", "&#125;")

\* The callback of formatJsxAttributes for one entry.
formatJsxAttribute(key, value, useExpressions) ==
    IF key = "style" /\ useExpressions
    THEN "style={" \o JSONStringify(parseStyleString(value)) \o "}"
    ELSE IF useExpressions /\ isNumericValue(value)
    THEN key \o "={" \o value \o "}"
    ELSE key \o "=\"" \o escapeJsxAttribute(value) \o "\""

formatJsxAttributes(attrs, useExpressions) ==
    Join([i \in 1..Len(attrs) |->
             formatJsxAttribute(attrs[i].name, attrs[i].value, useExpressions)], " ")

RECURSIVE Spread(_, _, _)
\* { ...attrs, ...more }: the entries of more from i on, set one by one.
Spread(attrs, more, i) ==
    IF i > Len(more) THEN attrs
    ELSE Spread(Set(attrs, more[i].name, more[i].value), more, i + 1)

\* options.useExpressions ?? true
useExpressionsOf(options) ==
    IF options.useExpressions = <<>> THEN TRUE ELSE options.useExpressions[1]

\* serializeToJsx's attrs: the transformed attributes, with the root
\* attribute overrides spread over them on the root svg.
jsxAttrs(element, options, isRoot, attrs) ==
    IF isRoot /\ element.name = "svg" /\ options.rootAttributes # <<>>
    THEN Spread(attrs, options.rootAttributes[1], 1)
    ELSE attrs

\* attrsStr ? `<${element.name} ${attrsStr}` : `<${element.name}`
jsxOpenTag(name, attrsStr) ==
    IF attrsStr # "" THEN "<" \o name \o " " \o attrsStr ELSE "<" \o name

RECURSIVE serializeToJsx(_, _, _, _)

\* The element once indentStr and openTag are known.
serializeToJsxWith(element, options, indent, indentStr, openTag) ==
    IF Len(element.children) = 0 THEN indentStr \o openTag \o " />"
    ELSE indentStr \o openTag \o ">\n"
            \o Join([i \in 1..Len(element.children) |->
                        serializeToJsx(element.children[i], options, indent + 2, FALSE)],
                    "\n")
            \o "\n" \o indentStr \o "</" \o element.name \o ">"

serializeToJsx(element, options, indent, isRoot) ==
    IF element.type = "text" THEN element.value
    ELSE serializeToJsxWith(element, options, indent, Repeat(" ", indent),
             jsxOpenTag(element.name,
                 formatJsxAttributes(
                     jsxAttrs(element, options, isRoot,
                              transformAttributes(element.attributes, "react")),
                     useExpressionsOf(options))))

-----------------------------------------------------------------------------
(* The objects the transformer and the emitters write *)

(***************************************************************************)
(* An attribute mapping is an object, and an element holds a reference to  *)
(* it.  `objects` is the sequence of the attribute objects there are: the  *)
(* tree's own come first, element by element in document order, and an     *)
(* object the code makes is put behind them.  A reference is an index.     *)
(***************************************************************************)

RECURSIVE AttributeObjectsOfAll(_, _)

\* The attribute objects of a tree, in document order.
AttributeObjects(element) ==
    IF element.type = "text" THEN <<>>
    ELSE <<element.attributes>> \o AttributeObjectsOfAll(element.children, 1)

AttributeObjectsOfAll(children, i) ==
    IF i > Len(children) THEN <<>>
    ELSE AttributeObjects(children[i]) \o AttributeObjectsOfAll(children, i + 1)

\* objects with value stored under ref, which is in use or the next free one.
StoreAt(objects, ref, value) ==
    IF ref > Len(objects) THEN Append(objects, value)
    ELSE [objects EXCEPT ![ref] = value]

\* Variant of transformAttributes' target that writes into the object it
\* was given.
transformedRefInPlace(objects, attributesRef) == attributesRef

\* const transformed = {}: the target of transformAttributes is a new object.
transformedRef(objects, attributesRef) == Len(objects) + 1

\* transformAttributes on the object behind attributesRef: the objects after
\* the call and the reference it returns.
transformAttributesIn(objects, attributesRef, framework) ==
    [objects |-> StoreAt(objects, transformedRef(objects, attributesRef),
                         transformAttributes(objects[attributesRef], framework)),
     ref |-> transformedRef(objects, attributesRef)]

RECURSIVE emitObjects(_, _, _, _)

\* The deletes of buildRootSvgJsx act on attrs, the object behind t.ref.
emitObjectsAt(objects, n, i, rewriteRoot, t) ==
    emitObjects(IF i = 1 /\ rewriteRoot
                THEN [t.objects EXCEPT ![t.ref] = deleteFill(deleteSize(@))]
                ELSE t.objects,
                n, i + 1, rewriteRoot)

\* The objects after ReactGenerator's emission of a tree whose own n
\* attribute objects are the first of `objects`: each element's attributes
\* are transformed, from element i on, and the root's are rewritten when
\* buildRootSvgJsx emits it.
emitObjects(objects, n, i, rewriteRoot) ==
    IF i > n THEN objects
    ELSE emitObjectsAt(objects, n, i, rewriteRoot,
                       transformAttributesIn(objects, i, "react"))

RECURSIVE jsxObjects(_, _, _, _)

\* attrs = { ...attrs, ...options.rootAttributes }: one more new object.
jsxObjectsAt(objects, n, i, spreadRoot, t) ==
    jsxObjects(IF i = 1 /\ spreadRoot # <<>>
               THEN Append(t.objects, Spread(t.objects[t.ref], spreadRoot[1], 1))
               ELSE t.objects,
               n, i + 1, spreadRoot)

\* The objects after serializeToJsx, in the same way; spreadRoot holds the
\* root attribute overrides when they are spread over the root's attributes.
jsxObjects(objects, n, i, spreadRoot) ==
    IF i > n THEN objects
    ELSE jsxObjectsAt(objects, n, i, spreadRoot,
                      transformAttributesIn(objects, i, "react"))

\* The overrides serializeToJsx spreads over the attributes of element.
spreadOf(element, options) ==
    IF element.type = "element" /\ element.name = "svg" THEN options.rootAttributes
    ELSE <<>>

-----------------------------------------------------------------------------
(* VueGenerator *)

\* Variant of generateComponent that trims the markup it is given.
vueGenerateComponentTrimmed(name, svgContent, includeProps) ==
    IF ~includeProps
    THEN "<template>\n  " \o Trim(svgContent) \o "\n</template>\n"
    ELSE "<script setup lang=\"ts\">\n"
             \o "interface Props {\n"
             \o "  size?: number | string;\n"
             \o "  color?: string;\n"
             \o "}\n\n"
             \o "withDefaults(defineProps<Props>(), {\n"
             \o "  size: 24,\n"
             \o "  color: \"currentColor\",\n"
             \o "});\n"
             \o "</script>\n\n"
             \o "<template>\n  " \o Trim(svgContent) \o "\n</template>\n"

\* The two template literals of VueGenerator.generateComponent.
vueGenerateComponent(name, svgContent, includeProps) ==
    IF ~includeProps
    THEN "<template>\n  " \o svgContent \o "\n</template>\n"
    ELSE "<script setup lang=\"ts\">\n"
             \o "interface Props {\n"
             \o "  size?: number | string;\n"
             \o "  color?: string;\n"
             \o "}\n\n"
             \o "withDefaults(defineProps<Props>(), {\n"
             \o "  size: 24,\n"
             \o "  color: \"currentColor\",\n"
             \o "});\n"
             \o "</script>\n\n"
             \o "<template>\n  " \o svgContent \o "\n</template>\n"

\* const { componentName, svgContent, props = true } = options
propsOf(options) == IF options.props = <<>> THEN TRUE ELSE options.props[1]

\* What generate returns.
GeneratorResult(code, extension, framework) ==
    [code |-> code, extension |-> extension, framework |-> framework]

\* VueGenerator.generate
vueGenerate(options) ==
    GeneratorResult(
        vueGenerateComponent(options.componentName, options.svgContent, propsOf(options)),
        ".vue", "vue")

-----------------------------------------------------------------------------
(* filenameToComponentName *)

RECURSIVE LastIndexOfAny(_, _, _)
\* The last position <= i of s that holds a character of S, 0 when none.
LastIndexOfAny(s, S, i) ==
    IF i < 1 THEN 0
    ELSE IF Char(s, i) \in S THEN i
    ELSE LastIndexOfAny(s, S, i - 1)

RECURSIVE IndexOfAny(_, _, _)
\* The first position >= i of s that holds a character of S, Len(s) + 1 when
\* none.
IndexOfAny(s, S, i) ==
    IF i > Len(s) \/ Char(s, i) \in S THEN i ELSE IndexOfAny(s, S, i + 1)

\* filename.replace(/^.*[\\/]/, ""): all up to the last slash or backslash
\* goes.
stripDirectory(filename) ==
    SubSeq(filename, LastIndexOfAny(filename, {"/", "\\"}, Len(filename)) + 1,
           Len(filename))

\* .replace(/\.svg$/i, "")
stripSvgExtension(name) ==
    IF MatchIgnoreCase(name, Len(name) - 3, ".svg")
    THEN SubSeq(name, 1, Len(name) - 4)
    ELSE name

RECURSIVE splitOnRuns(_, _)
\* The split at the first separator, at position a (Len(s) + 1 when none):
\* the whole run of separators from a on is one cut.
splitOnRunsAt(s, S, a) ==
    IF a > Len(s) THEN <<s>>
    ELSE <<SubSeq(s, 1, a - 1)>> \o splitOnRuns(SubSeq(s, SkipWhile(s, a, S), Len(s)), S)

\* baseName.split(/[-_\s]+/), S being the characters of the class.
splitOnRuns(s, S) == splitOnRunsAt(s, S, IndexOfAny(s, S, 1))

\* part.charAt(0).toUpperCase() + part.slice(1).toLowerCase()
capitalize(part) == ToUpperChar(Char(part, 1)) \o ToLowerCase(SubSeq(part, 2, Len(part)))

\* The parts of the base name, each capitalized, joined.
pascalCaseOf(parts) == Join([i \in 1..Len(parts) |-> capitalize(parts[i])], "")

\* Variant of the suffix step that appends Icon to every name.
withIconSuffixAlways(pascalCase) == pascalCase \o "Icon"

\* pascalCase.endsWith("Icon") ? pascalCase : `${pascalCase}Icon`
withIconSuffix(pascalCase) ==
    IF StartsWithAt(pascalCase, Len(pascalCase) - 3, "Icon") THEN pascalCase
    ELSE pascalCase \o "Icon"

filenameToComponentName(filename) ==
    withIconSuffix(pascalCaseOf(splitOnRuns(stripSvgExtension(stripDirectory(filename)),
                                            {"-", "_"} \cup Whitespace)))

-----------------------------------------------------------------------------
(* The optimizer's configuration *)

\* An option that is given holds its value in a one-element tuple.
IsFalse(option) == option = <<FALSE>>
IsTrue(option) == option = <<TRUE>>

\* One push of buildConfig: the plugin when the test holds.
pushIf(test, plugin) == IF test THEN <<plugin>> ELSE <<>>

\* Variant of buildConfig that adds removeTitle unless it is switched off.
buildConfigTitleByDefault(options) ==
    [plugins |->
        <<"preset-default">>
            \o pushIf(~IsFalse(options.removeComments), "removeComments")
            \o pushIf(~IsFalse(options.removeMetadata), "removeMetadata")
            \o pushIf(~IsFalse(options.removeTitle), "removeTitle")
            \o pushIf(IsTrue(options.removeDesc), "removeDesc")
            \o pushIf(IsTrue(options.removeDimensions), "removeDimensions")
            \o pushIf(~IsFalse(options.cleanupIds), "cleanupIds")
            \o <<"removeXMLNS">>]

\* buildConfig: the plugins in the order of the pushes.
buildConfig(options) ==
    [plugins |->
        <<"preset-default">>
            \o pushIf(~IsFalse(options.removeComments), "removeComments")
            \o pushIf(~IsFalse(options.removeMetadata), "removeMetadata")
            \o pushIf(IsTrue(options.removeTitle), "removeTitle")
            \o pushIf(IsTrue(options.removeDesc), "removeDesc")
            \o pushIf(IsTrue(options.removeDimensions), "removeDimensions")
            \o pushIf(~IsFalse(options.cleanupIds), "cleanupIds")
            \o <<"removeXMLNS">>]

-----------------------------------------------------------------------------
(* The generator registry *)

(***************************************************************************)
(* A Map is an object too: `maps` is the sequence of the Maps there are,   *)
(* each as its [name, value] entries in insertion order, the key being a   *)
(* framework and the value the name of a generator object.  The first is   *)
(* the registry, the module's `generators`.                                *)
(***************************************************************************)

\* generators after registerBuiltInGenerators().
registerBuiltInGenerators ==
    <<Set(Set(<<>>, "react", "ReactGenerator"), "vue", "VueGenerator")>>

\* generators.get(framework): a one-element tuple, or the empty tuple for
\* undefined.
getGenerator(ms, framework) == Get(ms[1], framework)

\* Array.from(generators.keys())
getSupportedFrameworks(ms) == [i \in 1..Len(ms[1]) |-> ms[1][i].name]

\* generators.set(generator.framework, generator)
registerGenerator(ms, generator) ==
    [ms EXCEPT ![1] = Set(@, generator.framework, generator.name)]

\* Variant of getAllGenerators that hands out the registry itself.
getAllGeneratorsShared(ms) == [maps |-> ms, ref |-> 1]

\* new Map(generators): the Maps after the call and the reference returned.
getAllGenerators(ms) == [maps |-> Append(ms, ms[1]), ref |-> Len(ms) + 1]

\* What a caller may do to a Map it holds: set, delete or clear.
mapChanged(map, change) ==
    IF change.method = "set" THEN Set(map, change.key, change.value)
    ELSE IF change.method = "delete" THEN Delete(map, change.key)
    ELSE <<>>

-----------------------------------------------------------------------------
(* The command line *)

(***************************************************************************)
(* The file system is [files, dirs]: files maps a path to its content, as  *)
(* [name, value] entries, and dirs is the set of the directories.  Paths   *)
(* are written resolved, with "/" between their parts.                     *)
(***************************************************************************)

\* path.basename
basename(path) == SubSeq(path, LastIndexOfAny(path, {"/"}, Len(path)) + 1, Len(path))

\* The extension of a base name whose last dot is at position dot (0 when
\* none): a dot that begins the name starts no extension.
extnameAt(base, dot) == IF dot <= 1 THEN "" ELSE SubSeq(base, dot, Len(base))

\* The extension of a base name.
extnameOf(base) == extnameAt(base, LastIndexOfAny(base, {"."}, Len(base)))

\* path.extname
extname(path) == extnameOf(basename(path))

\* path.join of a directory and a name.
join(dir, name) == dir \o "/" \o name

\* existsSync
existsSync(fs0, path) == Has(fs0.files, path) \/ path \in fs0.dirs

\* resolveInputFiles for arguments without glob characters: those that
\* exist, are files and end in .svg in any case, each once, sorted; `order`
\* holds the paths in the order of Array.prototype.sort.
resolveInputFiles(fs0, files, order) ==
    SelectSeq(order, LAMBDA p : /\ p \in files
                                /\ Has(fs0.files, p)
                                /\ MatchIgnoreCase(p, Len(p) - 3, ".svg"))

\* frameworks.length > 0 ? frameworks : ["react"]
parseFrameworksFrom(frameworks) ==
    IF Len(frameworks) > 0 THEN frameworks ELSE <<"react">>

\* The parts of the option, trimmed and lower-cased, that name a framework.
parseFrameworksOf(parts) ==
    parseFrameworksFrom(
        SelectSeq([i \in 1..Len(parts) |-> ToLowerCase(Trim(parts[i]))],
                  LAMBDA s : s \in {"react", "vue"}))

parseFrameworks(value) == parseFrameworksOf(Split(value, ","))

\* processAndGenerate's componentName for one file.
componentNameOf(options, paths, filePath) ==
    IF Len(paths) = 1 /\ options.name # <<>> /\ Trim(options.name[1]) # ""
    THEN Trim(options.name[1])
    ELSE filenameToComponentName(basename(filePath))

COMPONENT_EXTENSIONS == {".tsx", ".jsx", ".vue", ".ts", ".js"}

isOutputFile(fs0, outputPath) ==
    IF existsSync(fs0, outputPath) THEN Has(fs0.files, outputPath)
    ELSE ToLowerCase(extname(outputPath)) \in COMPONENT_EXTENSIONS

RECURSIVE totalResults(_, _)
\* generated.reduce((sum, g) => sum + g.results.length, 0), from entry i on.
totalResults(generated0, i) ==
    IF i > Len(generated0) THEN 0
    ELSE Len(generated0[i].results) + totalResults(generated0, i + 1)

\* writeFileSync(path, content)
writeFileSync(fs0, path, content) ==
    [fs0 EXCEPT !.files = Set(@, path, content)]

\* The file branch once the existing content is read: the code goes behind
\* it, after an empty line when there is content.
writeToFile(fs0, path, existingContent, code) ==
    writeFileSync(fs0, path,
        existingContent \o (IF TrimEnd(existingContent) # "" THEN "\n\n" ELSE "")
            \o code)

RECURSIVE writeToDirectory(_, _, _, _)
\* The two loops of the directory branch, from result j of entry i on.
writeToDirectory(fs0, dir, generated0, at) ==
    IF at.file > Len(generated0) THEN fs0
    ELSE IF at.framework > Len(generated0[at.file].results)
    THEN writeToDirectory(fs0, dir, generated0, [file |-> at.file + 1, framework |-> 1])
    ELSE writeToDirectory(
             writeFileSync(fs0,
                 join(dir, generated0[at.file].componentName
                              \o generated0[at.file].results[at.framework].extension),
                 generated0[at.file].results[at.framework].code),
             dir, generated0, [file |-> at.file, framework |-> at.framework + 1])

\* Variant of the file branch that writes the first result however many
\* there are.
writeOutputFileAny(fs0, generated0, outputPath) ==
    IF totalResults(generated0, 1) = 0 \/ Len(generated0[1].results) = 0
    THEN [threw |-> TRUE, fs |-> fs0]
    ELSE [threw |-> FALSE,
          fs |-> writeToFile(fs0, outputPath,
                     IF Has(fs0.files, outputPath) THEN Get(fs0.files, outputPath)[1]
                     ELSE "",
                     generated0[1].results[1].code)]

\* writeOutput's file branch: it throws unless there is exactly one result
\* (and at the read of generated[0].results[0] when the first entry has
\* none), before anything is written.
writeOutputFile(fs0, generated0, outputPath) ==
    IF totalResults(generated0, 1) # 1 \/ Len(generated0[1].results) = 0
    THEN [threw |-> TRUE, fs |-> fs0]
    ELSE [threw |-> FALSE,
          fs |-> writeToFile(fs0, outputPath,
                     IF Has(fs0.files, outputPath) THEN Get(fs0.files, outputPath)[1]
                     ELSE "",
                     generated0[1].results[1].code)]

\* writeOutput: whether it threw and the file system it leaves.
writeOutput(fs0, generated0, outputPath) ==
    IF isOutputFile(fs0, outputPath)
    THEN writeOutputFile(fs0, generated0, outputPath)
    ELSE [threw |-> FALSE,
          fs |-> writeToDirectory([fs0 EXCEPT !.dirs = @ \cup {outputPath}],
                                  outputPath, generated0,
                                  [file |-> 1, framework |-> 1])]

-----------------------------------------------------------------------------
(* The inputs *)

\* The longest attribute list of a generated root element.
MaxAttrs == 3

\* The longest child list of a generated root element.
MaxChildren == 2

\* The sequences of at most n distinct members of S.
DistinctSeqs(S, n) ==
    {q \in UNION {[1..k -> S] : k \in 0..n} :
        \A i, j \in 1..Len(q) : i # j => q[i] # q[j]}

\* The sequences of at most n members of S.
SeqsUpTo(S, n) == UNION {[1..k -> S] : k \in 0..n}

\* Texts that are no document, or a broken one.
RawTexts ==
    {"", "not svg content", "not valid svg", "<div>content</div>",
     "<div><span>hello</span></div>", "<svg><path", "<svg", "svg></svg>",
     "<svg><g></svg>", "<svg>a & b</svg>", "<svg></svg>", "<svg/>"}

Prologs == {"", "<?xml version=\"1.0\"?>\n", "<!-- icon -->", "<!DOCTYPE svg>\n"}

RootNames == {"svg", "SVG", "svgfoo", "g"}

Wrappers == {<<"", "">>, <<"<g>", "</g>">>, <<"<div>\n", "\n</div>">>}

\* Documents that differ in what stands at the top level.
DocsRoot ==
    {p \o w[1] \o "<" \o r \o " width=\"24\"/>" \o w[2] :
        p \in Prologs, w \in Wrappers, r \in RootNames}
    \cup
    {p \o w[1] \o "<" \o r \o "><path d=\"M1 1\"/></" \o r \o ">" \o w[2] :
        p \in Prologs, w \in Wrappers, r \in RootNames}

ChildSnippets ==
    {"<path d=\"M12 2\" stroke-width=\"2\"/>",
     "<text>Hello World</text>",
     "\n  ",
     "<!-- note -->",
     "<![CDATA[x]]>",
     "<?pi x?>",
     "Hi",
     "<g>a &amp; b</g>",
     "<text> </text>",
     "<tspan> x </tspan>",
     "<g fill=\"red\"><svg width=\"1\" height=\"2\" fill=\"blue\"/>\n</g>",
     "<rect title=\"&amp;&lt;&gt;&quot;&apos;\" rx='2'/>"}

\* Documents that differ in the children of the svg root.
DocsChildren ==
    {"<svg viewBox=\"0 0 24 24\">" \o Join(q, "") \o "</svg>" :
        q \in SeqsUpTo(ChildSnippets, MaxChildren)}

AttrSnippets ==
    {" width=\"48\"", " height=\"24\"", " width=\"\"",
     " fill=\"red\"", " fill=\"none\"", " fill=\"\"",
     " viewBox=\"0 0 24 24\"", " stroke-width=\"2\""}

\* Documents that differ in the attributes of the svg root.
DocsAttrs ==
    {"<svg" \o Join(q, "") \o "><circle cx=\"12\" r=\"10\"/></svg>" :
        q \in DistinctSeqs(AttrSnippets, MaxAttrs)}

ComponentNames == {"TestIcon"}

\* What generate is called with; the optimizer answers with some document.
SourceSvgs == {"<svg viewBox=\"0 0 24 24\"><path d=\"M5 12h14\"/></svg>"}

AttrKeys == {"style", "cx", "d", "strokeWidth"}

AttrValues ==
    {"10", "-1.5", "0.5", "007", "-0", "1.", ".5", "+1", "1e3", " 1", "1 ", "",
     "-", "1.2.3", "--1", "2px", "M12 2", "none", "fill: red; stroke-width: 2",
     "2", "a&b", "say \"hi\"", "<b>", "{x}", "1\n", "1-2", "-.5", "12.50"}

\* What the optimizer may answer besides the documents above: a document
\* without an svg root, or no document.
OptimizedOther == {"<div>content</div>", "<g><path d=\"M1 1\"/></g>", ""}

\* Attribute names transformAttributeName is called with.
AttrNames ==
    {SVG_TO_REACT_ATTRS[i][1] : i \in 1..Len(SVG_TO_REACT_ATTRS)}
    \cup {"d", "viewBox", "className", "strokeWidth", "data-id", "x", "",
          "Stroke-Width", "constructor", "toString"}

Frameworks == {"react", "vue"}

\* Entries of the attribute mappings transformAttributes is called with.
MappingEntries ==
    {[name |-> "class", value |-> "a"],
     [name |-> "className", value |-> "b"],
     [name |-> "stroke-width", value |-> "2"],
     [name |-> "strokeWidth", value |-> "3"],
     [name |-> "d", value |-> "M12 2"],
     [name |-> "for", value |-> ""],
     [name |-> "htmlFor", value |-> "x"],
     [name |-> "viewBox", value |-> "0 0 24 24"]}

AttrMappings ==
    {q \in DistinctSeqs(MappingEntries, MaxAttrs) :
        \A i, j \in 1..Len(q) : i # j => q[i].name # q[j].name}

StyleParsers == {"parseStyleToObject", "parseStyleString", "transformStyleToReact"}

StyleStrings ==
    {"", "fill: red; stroke-width: 2", "fill:red", "nocolon; fill: red",
     ": red; stroke: blue", "fill: ; stroke-width: 2px", "opacity: 02; z-index: 2.0",
     "fill: red; fill: blue", "a:b:c", "a::b", " ; ;", "font-size: 12; -x: 1",
     "margin: -0.5;", "stroke-width:2;;", "width: Infinity", "line-height: 1e3",
     "fill: red; broken; stroke-width: 2", "stroke-dasharray : 4 2 ;opacity:.5",
     "fill;stroke", "x: -0; y: 0.50; z: 10", "stroke-width: 2; fill-opacity: 0.5",
     "fill: red;", "background: url(http://x.y/z.png); fill: red"}

Element(name, attributes, children) ==
    [name |-> name, type |-> "element", attributes |-> attributes,
     children |-> children]

TextNode(value) ==
    [name |-> "#text", type |-> "text", attributes |-> <<>>, children |-> <<>>,
     value |-> value]

\* Entries of the attribute mappings of the elements the serializers are
\* called with.
ElementEntries ==
    {[name |-> "class", value |-> "icon"],
     [name |-> "stroke-width", value |-> "2"],
     [name |-> "title", value |-> "a&b<c>\"d\"'e'{f}"],
     [name |-> "data-x", value |-> "&lt;&amp;"],
     [name |-> "width", value |-> "24"],
     [name |-> "style", value |-> "fill: red; stroke-width: 2"]}

ElementMappings ==
    {q \in DistinctSeqs(ElementEntries, MaxAttrs) :
        \A i, j \in 1..Len(q) : i # j => q[i].name # q[j].name}

ElementChildNodes ==
    {TextNode("Hello World"),
     TextNode(" a < b "),
     Element("path", <<[name |-> "d", value |-> "M12 2"],
                       [name |-> "stroke-width", value |-> "2"]>>, <<>>),
     Element("rect", <<>>, <<>>),
     Element("g", <<[name |-> "fill", value |-> "red"]>>,
             <<Element("circle", <<[name |-> "cx", value |-> "12"]>>, <<>>),
               TextNode("x")>>)}

\* The trees the serializers are called with: they differ in the root's
\* attributes, in its children, or in what the root is.
Elements ==
    {Element("svg", a, <<Element("path", <<[name |-> "d", value |-> "M5 12h14"]>>, <<>>)>>) :
        a \in ElementMappings}
    \cup
    {Element(n, <<[name |-> "viewBox", value |-> "0 0 24 24"],
                  [name |-> "fill", value |-> "a \"b\""]>>, c) :
        n \in {"svg", "g"}, c \in SeqsUpTo(ElementChildNodes, MaxChildren)}
    \cup
    {TextNode("Hello World"), TextNode(" <b> "), Element("svg", <<>>, <<>>)}

\* The deepest indentation level serializeSvgElement is called at.
MaxIndent == 1

\* JsxSerializeOptions: each field is given or not.
JsxOptions ==
    {[rootAttributes |-> r, useExpressions |-> u] :
        r \in {<<>>, << <<[name |-> "width", value |-> "1em"],
                          [name |-> "className", value |-> "{icon}"]>> >>},
        u \in {<<>>, <<TRUE>>, <<FALSE>>}}

\* Markup VueGenerator.generate is called with: it is not parsed.
VueSvgs ==
    SourceSvgs
    \cup {"", "not svg content", "  <svg/>\n", "<svg width=\"24\"><path d=\"M1 1\"/></svg>",
          "<script>x</script>", "<svg>\n  <circle r=\"1\"/>\n</svg>", "</template>",
          "<svg fill=\"{{ color }}\"/>"}

\* Ways filenameToComponentName is given the name of a file.
Filenames ==
    {"arrow-left.svg", "arrow_right.svg", "arrow up.svg", "/icons/arrow-down.svg",
     "C:\\icons\\arrow-down.svg", "arrow-icon.svg", "home.svg", "MyArrow.svg",
     "icon-icon.svg", "icon.svg", ".svg", "ICON.SVG", "-a", "a--b_c", "",
     "my-icon-icon.SVG", "x.svg.svg", "a.png", "iconIcon.svg", "a/b\\c-d.svg",
     "check - mark__2.svg", "svg"}

\* OptimizerOptions: each option is left out, true or false.
OptimizerOptionsSet ==
    [removeComments : {<<>>, <<TRUE>>, <<FALSE>>},
     removeMetadata : {<<>>, <<TRUE>>, <<FALSE>>},
     removeTitle : {<<>>, <<TRUE>>, <<FALSE>>},
     removeDesc : {<<>>, <<TRUE>>, <<FALSE>>},
     removeDimensions : {<<>>, <<TRUE>>, <<FALSE>>},
     cleanupIds : {<<>>, <<TRUE>>, <<FALSE>>}]

\* The generators registerGenerator is called with: Framework is "react" or
\* "vue".
CustomGenerators ==
    {[framework |-> "react", name |-> "CustomReact"],
     [framework |-> "vue", name |-> "CustomVue"],
     [framework |-> "react", name |-> "OtherReact"]}

\* What a caller does to a Map getAllGenerators returned.
MapChanges ==
    {[method |-> "set", key |-> "react", value |-> "Foreign"],
     [method |-> "set", key |-> "svelte", value |-> "Foreign"],
     [method |-> "delete", key |-> "vue", value |-> ""],
     [method |-> "clear", key |-> "", value |-> ""]}

\* The most calls one run makes on the registry.
MaxRegistryCalls == 3

\* The file system the command line starts in.
InitialFs ==
    [files |-> <<[name |-> "/a/bad.svg", value |-> "not svg content"],
                 [name |-> "/a/close-icon.svg", value |-> "<svg/>"],
                 [name |-> "/a/close.svg",
                  value |-> "<svg viewBox=\"0 0 24 24\"><path d=\"M5 12h14\"/></svg>"],
                 [name |-> "/a/group.svg", value |-> "<svgfoo width=\"24\"/>"],
                 [name |-> "/a/home.svg", value |-> "<svg fill=\"none\"/>"],
                 [name |-> "/b/close.svg", value |-> "<svg width=\"1\"/>"],
                 [name |-> "/out/Old.tsx", value |-> "// old\n"]>>,
     dirs |-> {"/a", "/b", "/out"}]

\* The paths the command line is given, in the order of Array.prototype.sort.
PathOrder ==
    <<"/a/bad.svg", "/a/close-icon.svg", "/a/close.svg", "/a/group.svg",
      "/a/home.svg", "/a/none.svg", "/b/close.svg">>

\* The most input paths of one run of the command line.
MaxFiles == 2

\* The runs of the command line: the input paths and the options.
CliRuns ==
    {[op |-> "cli", files |-> f, framework |-> w, name |-> n, props |-> TRUE,
      output |-> o] :
        f \in {s \in SUBSET {PathOrder[i] : i \in 1..Len(PathOrder)} :
                  Cardinality(s) \in 1..MaxFiles},
        w \in {"react", "react, Vue", "svelte"},
        n \in {<<>>, <<" Custom ">>},
        o \in {"/out", "/out/Old.tsx", "/out/New.tsx", "/new"}}

Calls ==
    {[op |-> "parseSvg", svgContent |-> d] :
        d \in RawTexts \cup DocsRoot \cup DocsChildren \cup DocsAttrs}
    \cup
    {[op |-> "roundtrip", svgContent |-> d] :
        d \in RawTexts \cup DocsRoot \cup DocsChildren}
    \cup
    {[op |-> "generate", componentName |-> n, svgContent |-> d, props |-> b] :
        n \in ComponentNames, d \in SourceSvgs, b \in BOOLEAN}
    \cup
    {[op |-> "formatAttribute", key |-> k, value |-> v] :
        k \in AttrKeys, v \in AttrValues}
    \cup
    {[op |-> "transformAttributeName", attrName |-> a, framework |-> f] :
        a \in AttrNames, f \in Frameworks}
    \cup
    {[op |-> "transformAttributes", attributes |-> a, framework |-> f] :
        a \in AttrMappings, f \in Frameworks}
    \cup
    {[op |-> "parseStyle", parser |-> p, styleString |-> s] :
        p \in StyleParsers, s \in StyleStrings}
    \cup
    {[op |-> "serializeSvgElement", element |-> e, indent |-> n] :
        e \in Elements, n \in 0..MaxIndent}
    \cup
    {[op |-> "serializeToJsx", element |-> e, options |-> o] :
        e \in Elements, o \in JsxOptions}
    \cup
    {[op |-> "vueGenerate", componentName |-> n, svgContent |-> d, props |-> b] :
        n \in ComponentNames, d \in VueSvgs, b \in {<<>>, <<TRUE>>, <<FALSE>>}}
    \cup
    {[op |-> "buildConfig", options |-> o] : o \in OptimizerOptionsSet}
    \cup
    {[op |-> "filenameToComponentName", filename |-> f] : f \in Filenames}
    \cup
    {[op |-> "registry"]}
    \cup
    CliRuns

-----------------------------------------------------------------------------
(* The state machine *)

Init ==
    /\ input \in Calls
    /\ op = input.op
    /\ pc = "start"
    /\ optimizedSvg = None
    /\ ast = None
    /\ parsed = None
    /\ serialized = None
    /\ reparsed = None
    /\ jsx = None
    /\ rawCode = None
    /\ formatted = None
    /\ returned = None
    /\ heap = None
    /\ calls = <<>>
    /\ result = None
    /\ maps = registerBuiltInGenerators
    /\ fs = InitialFs
    /\ svgPaths = <<>>
    /\ generated = <<>>
    /\ cursor = [file |-> 1, framework |-> 1]

\* One call of generate, as it is recorded.
Call(fn, arg) == [fn |-> fn, arg |-> arg]

\* generate, first step: optimizeSvg(svgContent). The optimizer is svgo, a
\* library outside the repository: it answers with some document, and the
\* steps after it are checked on every document of the input sets; or it
\* throws, and generate with it.
Optimize ==
    /\ op = "generate"
    /\ pc = "start"
    /\ calls' = Append(calls, Call("optimizeSvg", input.svgContent))
    /\ \/ /\ \E d \in DocsAttrs \cup DocsChildren \cup OptimizedOther : optimizedSvg' = d
          /\ pc' = "optimized"
       \/ /\ optimizedSvg' = optimizedSvg
          /\ pc' = "thrown"
    /\ UNCHANGED <<toolVars, op, input, ast, parsed, serialized, reparsed,
                   jsx, rawCode, formatted, returned, heap, result>>

\* parseSvg returns or throws r.result, having built r.ast.
ParseSvgReturn(r) ==
    /\ ast' = r.ast
    /\ parsed' = r.result
    /\ pc' = IF r.result.ok THEN "parsed" ELSE "thrown"

\* parseSvg(svgContent), or generate's parseSvg(optimizedSvg).
ParseSvg ==
    /\ \/ op \in {"parseSvg", "roundtrip"} /\ pc = "start"
       \/ op = "generate" /\ pc = "optimized"
    /\ ParseSvgReturn(parseSvgWithAst(IF op = "generate" THEN optimizedSvg
                                      ELSE input.svgContent))
    /\ calls' = IF op = "generate" THEN Append(calls, Call("parseSvg", optimizedSvg))
                ELSE calls
    /\ UNCHANGED <<toolVars, op, input, optimizedSvg, serialized, reparsed,
                   jsx, rawCode, formatted, returned, heap, result>>

\* The round trip's serializeSvgElement(parsed.root).
Serialize ==
    /\ op = "roundtrip"
    /\ pc = "parsed"
    /\ serialized' = serializeSvgElement(parsed.root, 0)
    /\ pc' = "serialized"
    /\ UNCHANGED <<toolVars, op, input, optimizedSvg, ast, parsed, reparsed,
                   jsx, rawCode, formatted, returned, heap, calls, result>>

\* The round trip's parseSvg(serialized).
Reparse ==
    /\ op = "roundtrip"
    /\ pc = "serialized"
    /\ reparsed' = parseSvg(serialized)
    /\ pc' = "reparsed"
    /\ UNCHANGED <<toolVars, op, input, optimizedSvg, ast, parsed, serialized,
                   jsx, rawCode, formatted, returned, heap, calls, result>>

\* generate's generateComponent(componentName, parsed.root, props).
Emit ==
    /\ op = "generate"
    /\ pc = "parsed"
    /\ jsx' = serializeSvgToJsx(parsed.root, input.props)
    /\ rawCode' = generateComponent(input.componentName, jsx'.text, input.props)
    /\ heap' = emitObjects(AttributeObjects(parsed.root),
                           Len(AttributeObjects(parsed.root)), 1,
                           parsed.root.name = "svg" /\ input.props)
    /\ calls' = Append(calls, Call("generateComponent", input.componentName))
    /\ pc' = "emitted"
    /\ UNCHANGED <<toolVars, op, input, optimizedSvg, ast, parsed, serialized,
                   reparsed, formatted, returned, result>>

\* What the formatter may make of code. It is prettier, a library outside
\* the repository: it answers with some text, here the code as it is, or
\* with blank space added or taken away at its end.
FormatterAnswers(code) == {code, code \o "\n", TrimEnd(code), TrimEnd(code) \o "\n\n"}

\* Variant of the last steps that hands the formatter the JSX of the tree
\* instead of the component around it.
FormatJsxOnly ==
    /\ op = "generate"
    /\ pc = "emitted"
    /\ calls' = Append(calls, Call("format", jsx.text))
    /\ \/ /\ \E code \in FormatterAnswers(jsx.text) :
                result' = GeneratorResult(TrimEnd(code), ".tsx", "react")
          /\ pc' = "returned"
       \/ /\ result' = result
          /\ pc' = "thrown"
    /\ UNCHANGED <<toolVars, op, input, optimizedSvg, ast, parsed, serialized,
                   reparsed, jsx, rawCode, formatted, returned, heap>>

\* generate, last steps: synchronizedPrettier.format(rawCode, ...) answers
\* and generate returns the record with code.trimEnd(); or format throws, and
\* generate with it.
Format ==
    /\ op = "generate"
    /\ pc = "emitted"
    /\ calls' = Append(calls, Call("format", rawCode))
    /\ \/ /\ \E code \in FormatterAnswers(rawCode) :
                result' = GeneratorResult(TrimEnd(code), ".tsx", "react")
          /\ pc' = "returned"
       \/ /\ result' = result
          /\ pc' = "thrown"
    /\ UNCHANGED <<toolVars, op, input, optimizedSvg, ast, parsed, serialized,
                   reparsed, jsx, rawCode, formatted, returned, heap>>

\* VueGenerator.generate(options)
VueGenerate ==
    /\ op = "vueGenerate"
    /\ pc = "start"
    /\ calls' = Append(calls, Call("generateComponent", input.componentName))
    /\ result' = vueGenerate(input)
    /\ pc' = "returned"
    /\ UNCHANGED <<toolVars, op, input, optimizedSvg, ast, parsed, serialized,
                   reparsed, jsx, rawCode, formatted, returned, heap>>

\* formatAttribute(key, value)
FormatAttribute ==
    /\ op = "formatAttribute"
    /\ pc = "start"
    /\ formatted' = formatAttribute(input.key, input.value)
    /\ pc' = "returned"
    /\ UNCHANGED <<toolVars, op, input, optimizedSvg, ast, parsed, serialized,
                   reparsed, jsx, rawCode, returned, heap, calls, result>>

\* transformAttributeName(attrName, framework)
TransformAttributeName ==
    /\ op = "transformAttributeName"
    /\ pc = "start"
    /\ returned' = transformAttributeName(input.attrName, input.framework)
    /\ pc' = "returned"
    /\ UNCHANGED <<toolVars, op, input, optimizedSvg, ast, parsed, serialized,
                   reparsed, jsx, rawCode, formatted, heap, calls, result>>

\* transformAttributes(attributes, framework): the argument is the first
\* object, and what is returned is the object behind the returned reference.
TransformAttributes ==
    /\ op = "transformAttributes"
    /\ pc = "start"
    /\ heap' = transformAttributesIn(<<input.attributes>>, 1, input.framework).objects
    /\ returned' = heap'[transformAttributesIn(<<input.attributes>>, 1, input.framework).ref]
    /\ pc' = "returned"
    /\ UNCHANGED <<toolVars, op, input, optimizedSvg, ast, parsed, serialized,
                   reparsed, jsx, rawCode, formatted, calls, result>>

\* The mapping a style parser builds from styleString.
styleObjectOf(parser, styleString) ==
    IF parser = "parseStyleToObject" THEN parseStyleToObject(styleString)
    ELSE IF parser = "parseStyleString" THEN parseStyleString(styleString)
    ELSE transformStyleObject(styleString)

\* parseStyleToObject(styleString), parseStyleString(styleString) or
\* transformStyleToReact(styleString); the last returns the mapping as JSON.
ParseStyle ==
    /\ op = "parseStyle"
    /\ pc = "start"
    /\ returned' = [styleObj |-> styleObjectOf(input.parser, input.styleString),
                    json |-> IF input.parser = "transformStyleToReact"
                             THEN <<transformStyleToReact(input.styleString)>>
                             ELSE <<>>]
    /\ pc' = "returned"
    /\ UNCHANGED <<toolVars, op, input, optimizedSvg, ast, parsed, serialized,
                   reparsed, jsx, rawCode, formatted, heap, calls, result>>

\* serializeSvgElement(element, indent): it writes to no object.
SerializeSvgElement ==
    /\ op = "serializeSvgElement"
    /\ pc = "start"
    /\ returned' = serializeSvgElement(input.element, input.indent)
    /\ heap' = AttributeObjects(input.element)
    /\ pc' = "returned"
    /\ UNCHANGED <<toolVars, op, input, optimizedSvg, ast, parsed, serialized,
                   reparsed, jsx, rawCode, formatted, calls, result>>

\* serializeToJsx(element, options), indent and isRoot at their defaults.
SerializeToJsx ==
    /\ op = "serializeToJsx"
    /\ pc = "start"
    /\ returned' = serializeToJsx(input.element, input.options, 2, TRUE)
    /\ heap' = jsxObjects(AttributeObjects(input.element),
                          Len(AttributeObjects(input.element)), 1,
                          spreadOf(input.element, input.options))
    /\ pc' = "returned"
    /\ UNCHANGED <<toolVars, op, input, optimizedSvg, ast, parsed, serialized,
                   reparsed, jsx, rawCode, formatted, calls, result>>

\* buildConfig(options)
BuildConfig ==
    /\ op = "buildConfig"
    /\ pc = "start"
    /\ returned' = buildConfig(input.options)
    /\ pc' = "returned"
    /\ UNCHANGED <<toolVars, op, input, optimizedSvg, ast, parsed, serialized,
                   reparsed, jsx, rawCode, formatted, heap, calls, result>>

\* filenameToComponentName(filename)
FilenameToComponentName ==
    /\ op = "filenameToComponentName"
    /\ pc = "start"
    /\ returned' = filenameToComponentName(input.filename)
    /\ pc' = "returned"
    /\ UNCHANGED <<toolVars, op, input, optimizedSvg, ast, parsed, serialized,
                   reparsed, jsx, rawCode, formatted, heap, calls, result>>

\* registerGenerator(generator)
RegisterGenerator ==
    /\ op = "registry"
    /\ Len(calls) < MaxRegistryCalls
    /\ \E g \in CustomGenerators :
          /\ maps' = registerGenerator(maps, g)
          /\ calls' = Append(calls, Call("registerGenerator", g))
    /\ UNCHANGED <<fs, svgPaths, generated, cursor, op, pc, input, optimizedSvg,
                   ast, parsed, serialized, reparsed, jsx, rawCode, formatted,
                   returned, heap, result>>

\* getAllGenerators(): the caller holds the Map that is returned.
GetAllGenerators ==
    /\ op = "registry"
    /\ Len(calls) < MaxRegistryCalls
    /\ maps' = getAllGenerators(maps).maps
    /\ calls' = Append(calls, Call("getAllGenerators", getAllGenerators(maps).ref))
    /\ UNCHANGED <<fs, svgPaths, generated, cursor, op, pc, input, optimizedSvg,
                   ast, parsed, serialized, reparsed, jsx, rawCode, formatted,
                   returned, heap, result>>

\* A caller changes a Map that getAllGenerators returned to it.
ChangeReturnedMap ==
    /\ op = "registry"
    /\ Len(calls) < MaxRegistryCalls
    /\ \E i \in 1..Len(calls), change \in MapChanges :
          /\ calls[i].fn = "getAllGenerators"
          /\ maps' = [maps EXCEPT ![calls[i].arg] = mapChanged(@, change)]
          /\ calls' = Append(calls, Call(change.method, calls[i].arg))
    /\ UNCHANGED <<fs, svgPaths, generated, cursor, op, pc, input, optimizedSvg,
                   ast, parsed, serialized, reparsed, jsx, rawCode, formatted,
                   returned, heap, result>>

\* The action of the command, first steps: resolveInputFiles and
\* parseFrameworks; without an SVG file it reports so and exits with 1.
ResolveInputFiles ==
    /\ op = "cli"
    /\ pc = "start"
    /\ svgPaths' = resolveInputFiles(fs, input.files, PathOrder)
    /\ IF Len(svgPaths') = 0
       THEN pc' = "exit1" /\ result' = Throw("No SVG files found.")
       ELSE pc' = "generating" /\ result' = result
    /\ UNCHANGED <<maps, fs, generated, cursor, op, input, optimizedSvg, ast,
                   parsed, serialized, reparsed, jsx, rawCode, formatted, returned,
                   heap, calls>>

\* What the optimizer may answer in a run of the command line: the content
\* as it is, or a document without an svg root.
CliOptimized(svgContent) == {svgContent, "<div>content</div>"}

\* Where the two loops of processAndGenerate stand after the call at `at`.
nextCursor(at, frameworks) ==
    IF at.framework < Len(frameworks)
    THEN [file |-> at.file, framework |-> at.framework + 1]
    ELSE [file |-> at.file + 1, framework |-> 1]

\* The entry of the file the loops stand at, begun when its first
\* framework is reached.
entryAt(generated0, at, filePath, componentName) ==
    IF Len(generated0) < at.file
    THEN Append(generated0, [filePath |-> filePath, componentName |-> componentName,
                             results |-> <<>>])
    ELSE generated0

\* results.push(result) on the entry the loops stand at.
resultPushed(generated0, at, r) ==
    [generated0 EXCEPT ![at.file].results = Append(@, r)]

\* processAndGenerate goes on with the result r of generator.generate: the
\* action of the command goes on to writeOutput after the last one.
Generated(r, at, frameworks, filePath, componentName) ==
    /\ generated' = resultPushed(entryAt(generated, at, filePath, componentName), at, r)
    /\ cursor' = nextCursor(at, frameworks)
    /\ result' = r
    /\ pc' = IF cursor'.file > Len(svgPaths) THEN "generated" ELSE "generating"

\* generator.generate threw e: nothing catches it before the action of the
\* command, which reports it and exits with 1.
GenerateThrew(e) ==
    /\ result' = e
    /\ pc' = "exit1"
    /\ UNCHANGED <<generated, cursor>>

\* ReactGenerator.generate on what parseSvg made of the optimizer's answer:
\* it throws with parseSvg, or the formatter answers or throws.
ReactGenerateOn(parsed0, at, frameworks, filePath, componentName) ==
    IF parsed0.ok
    THEN \/ \E code \in FormatterAnswers(generateComponent(componentName,
                    serializeSvgToJsx(parsed0.root, input.props).text, input.props)) :
                Generated(GeneratorResult(TrimEnd(code), ".tsx", "react"),
                          at, frameworks, filePath, componentName)
         \/ GenerateThrew(Throw("format"))
    ELSE GenerateThrew(parsed0)

\* One turn of the inner loop of processAndGenerate for the file at
\* filePath with content svgContent: generator.generate(...).
GenerateFor(at, frameworks, filePath, svgContent, componentName) ==
    /\ getGenerator(maps, frameworks[at.framework]) # <<>>
    /\ IF frameworks[at.framework] = "vue"
       THEN Generated(vueGenerate([componentName |-> componentName,
                                   svgContent |-> svgContent,
                                   props |-> <<input.props>>]),
                      at, frameworks, filePath, componentName)
       ELSE \/ GenerateThrew(Throw("optimizeSvg"))
            \/ \E d \in CliOptimized(svgContent) :
                  ReactGenerateOn(parseSvg(d), at, frameworks, filePath, componentName)

\* processAndGenerate, one call of generator.generate at a time, the files
\* in the order of svgPaths and the frameworks in the order of the option.
ProcessAndGenerate ==
    /\ op = "cli"
    /\ pc = "generating"
    /\ GenerateFor(cursor, parseFrameworks(input.framework), svgPaths[cursor.file],
                   Get(fs.files, svgPaths[cursor.file])[1],
                   componentNameOf(input, svgPaths, svgPaths[cursor.file]))
    /\ UNCHANGED <<maps, fs, svgPaths, op, input, optimizedSvg, ast, parsed,
                   serialized, reparsed, jsx, rawCode, formatted, returned, heap,
                   calls>>

\* writeOutput returned or threw w.
WriteOutputReturn(w) ==
    /\ fs' = w.fs
    /\ pc' = IF w.threw THEN "exit1" ELSE "done"
    /\ result' = IF w.threw
                 THEN Throw("Output as file is only supported when converting a single SVG to a single framework.")
                 ELSE result

\* The action of the command, last step: writeOutput(generated,
\* options.output); when it throws the command exits with 1.
WriteOutput ==
    /\ op = "cli"
    /\ pc = "generated"
    /\ WriteOutputReturn(writeOutput(fs, generated, input.output))
    /\ UNCHANGED <<maps, svgPaths, generated, cursor, op, input, optimizedSvg, ast,
                   parsed, serialized, reparsed, jsx, rawCode, formatted, returned,
                   heap, calls>>

Next ==
    \/ Optimize
    \/ ParseSvg
    \/ Serialize
    \/ Reparse
    \/ Emit
    \/ Format
    \/ VueGenerate
    \/ FormatAttribute
    \/ TransformAttributeName
    \/ TransformAttributes
    \/ ParseStyle
    \/ SerializeSvgElement
    \/ SerializeToJsx
    \/ BuildConfig
    \/ FilenameToComponentName
    \/ RegisterGenerator
    \/ GetAllGenerators
    \/ ChangeReturnedMap
    \/ ResolveInputFiles
    \/ ProcessAndGenerate
    \/ WriteOutput

Spec == Init /\ [][Next]_vars

-----------------------------------------------------------------------------
(* Properties of parseSvg *)

\* parseSvg has just returned or thrown: what it was given and what it made
\* are not written to by any later step.
ParseDone ==
    /\ op \in {"parseSvg", "roundtrip", "generate"}
    /\ pc \in {"parsed", "thrown"}
    /\ parsed # None

\* The text parseSvg was called with.
ParseArgument == IF op = "generate" THEN optimizedSvg ELSE input.svgContent

\* The top-level children of the ast that are elements named exactly svg.
TopLevelSvg == SelectSeq(ast.children, LAMBDA c : c.type = "element" /\ c.name = "svg")

\* C1: parseSvg fails with InvalidDocument for every input that does not
\* pass the structural check isValidSvg, in particular for the empty string,
\* plain text and markup without an svg element, and it does so before any
\* tree is built.
C1_InvalidDocumentBeforeTree ==
    ParseDone =>
        /\ ~isValidSvg(ParseArgument) =>
              pc = "thrown" /\ parsed = Throw(InvalidDocument) /\ ast = None
        /\ ParseArgument \in {"", "not svg content", "<div>content</div>"} =>
              pc = "thrown" /\ parsed = Throw(InvalidDocument) /\ ast = None

\* parseSvg("not svg content") has thrown InvalidDocument.
C1_Witness ==
    /\ op = "parseSvg"
    /\ pc = "thrown"
    /\ input.svgContent = "not svg content"
    /\ parsed = Throw(InvalidDocument)

\* C2: when the input passes isValidSvg but the parse result has no
\* top-level element named exactly svg, parseSvg fails with
\* MissingRootElement; every ParsedSvg returned has a root of type element
\* named svg.
C2_MissingRootElement ==
    ParseDone =>
        /\ (isValidSvg(ParseArgument) /\ ast # None /\ TopLevelSvg = <<>>) =>
              pc = "thrown" /\ parsed = Throw(MissingRootElement)
        /\ parsed.ok => parsed.root.type = "element" /\ parsed.root.name = "svg"

\* parseSvg of a document whose only top-level element is spelled SVG has
\* thrown MissingRootElement.
C2_Witness ==
    /\ op = "parseSvg"
    /\ input.svgContent = "<SVG width=\"24\"/>"
    /\ isValidSvg(input.svgContent)
    /\ ast # None
    /\ parsed = Throw(MissingRootElement)

\* The attribute mapping as a set of entries.
Entries(attrs) == {attrs[i] : i \in 1..Len(attrs)}

RECURSIVE StructurallyEqual(_, _)
\* Same tag names, same attribute mappings, same child order, same text values.
StructurallyEqual(a, b) ==
    /\ a.type = b.type
    /\ a.name = b.name
    /\ Entries(a.attributes) = Entries(b.attributes)
    /\ a.type = "text" => a.value = b.value
    /\ Len(a.children) = Len(b.children)
    /\ \A i \in 1..Len(a.children) : StructurallyEqual(a.children[i], b.children[i])

\* C3: for every well-formed document x,
\* parseSvg(serializeSvgElement(parseSvg(x).root)) yields a tree structurally
\* equal to parseSvg(x).
C3_RoundTrip ==
    (op = "roundtrip" /\ pc = "reparsed") =>
        /\ reparsed.ok
        /\ StructurallyEqual(reparsed.root, parsed.root)

\* The source children the claim keeps: elements, and text whose trimmed
\* value is not empty.
KeptChildren(children) ==
    SelectSeq(children,
        LAMBDA c : c.type = "element" \/ (c.type = "text" /\ Trim(c.value) # ""))

RECURSIVE ChildrenOfSource(_, _)
\* Element e of the parsed tree has exactly the kept children of source
\* element x, in order, each text with the source's value; and so on below.
ChildrenOfSource(x, e) ==
    /\ Len(e.children) = Len(KeptChildren(x.children))
    /\ \A i \in 1..Len(e.children) :
          IF KeptChildren(x.children)[i].type = "text"
          THEN /\ e.children[i].type = "text"
               /\ e.children[i].value = KeptChildren(x.children)[i].value
               /\ e.children[i].children = <<>>
          ELSE /\ e.children[i].type = "element"
               /\ e.children[i].name = KeptChildren(x.children)[i].name
               /\ ChildrenOfSource(KeptChildren(x.children)[i], e.children[i])

RECURSIVE OnlyContent(_)
\* Every node below e is an element or a text with a non-empty trimmed value.
OnlyContent(e) ==
    \A i \in 1..Len(e.children) :
        /\ e.children[i].type \in {"element", "text"}
        /\ e.children[i].type = "text" => Trim(e.children[i].value) # ""
        /\ OnlyContent(e.children[i])

ElementChildren(children) == SelectSeq(children, LAMBDA c : c.type = "element")

RECURSIVE AttributesVerbatim(_, _)
\* Element e and every element below it carries the attribute mapping of its
\* source element, entry for entry.
AttributesVerbatim(x, e) ==
    /\ e.attributes = x.attributes
    /\ Len(ElementChildren(e.children)) = Len(ElementChildren(x.children))
    /\ \A i \in 1..Len(ElementChildren(e.children)) :
          AttributesVerbatim(ElementChildren(x.children)[i],
                             ElementChildren(e.children)[i])

\* C5: viewBox, width and height of a ParsedSvg equal the root's attributes
\* of those names, undefined exactly when the root has none; every element's
\* attribute mapping is the source's, names and values untransformed.
C5_AttributeProjections ==
    (ParseDone /\ parsed.ok) =>
        /\ parsed.viewBox = Get(parsed.root.attributes, "viewBox")
        /\ parsed.width = Get(parsed.root.attributes, "width")
        /\ parsed.height = Get(parsed.root.attributes, "height")
        /\ parsed.viewBox = <<>> <=> ~Has(parsed.root.attributes, "viewBox")
        /\ parsed.width = <<>> <=> ~Has(parsed.root.attributes, "width")
        /\ parsed.height = <<>> <=> ~Has(parsed.root.attributes, "height")
        /\ AttributesVerbatim(TopLevelSvg[1], parsed.root)
        /\ (ParseArgument \in DocsAttrs
                /\ Contains(ParseArgument, " stroke-width=\"2\"")) =>
              Get(parsed.root.attributes, "stroke-width") = <<"2">>

\* A ParsedSvg of a root with width, viewBox and stroke-width and no height.
C5_Witness ==
    /\ op = "parseSvg"
    /\ pc = "parsed"
    /\ parsed.width = <<"48">>
    /\ parsed.viewBox = <<"0 0 24 24">>
    /\ parsed.height = <<>>
    /\ Get(parsed.root.attributes, "stroke-width") = <<"2">>

-----------------------------------------------------------------------------
(* Properties of the JSX emitter *)

\* generate has emitted the component, with or without props.
Emitted(props) == op = "generate" /\ pc = "emitted" /\ input.props = props

\* The parts of the root's opening tag as a set.
RootParts == {jsx.attrParts[i] : i \in 1..Len(jsx.attrParts)}

\* The parts of the root's opening tag that set attribute `name`.
PartsOf(name) == {p \in RootParts : StartsWithAt(p, 1, name \o "=")}

\* The attribute name a part sets: the text before its first "=".
PartName(part) == SubSeq(part, 1, IndexOfFrom(part, "=", 1) - 1)

\* C6: with props, whatever the root's attributes, the root tag contains
\* width={size} and height={size}, and the root's literal width and height
\* are emitted nowhere in it.
C6_SizeRewrite ==
    Emitted(TRUE) =>
        /\ PartsOf("width") = {"width={size}"}
        /\ PartsOf("height") = {"height={size}"}

\* C7: with props, a root fill other than "none" is emitted as fill={color}
\* and its value is not emitted; a root fill "none" is emitted as
\* fill="none" without fill={color}; without a root fill no fill is emitted.
C7_FillRewrite ==
    Emitted(TRUE) =>
        /\ (Has(parsed.root.attributes, "fill")
                /\ Get(parsed.root.attributes, "fill") # <<"none">>) =>
              PartsOf("fill") = {"fill={color}"}
        /\ Get(parsed.root.attributes, "fill") = <<"none">> =>
              PartsOf("fill") = {"fill=\"none\""}
        /\ ~Has(parsed.root.attributes, "fill") => PartsOf("fill") = {}

\* The position of key in the root's transformed attribute mapping.
InsertionIndex(key) ==
    CHOOSE i \in 1..Len(transformAttributes(parsed.root.attributes, "react")) :
        transformAttributes(parsed.root.attributes, "react")[i].name = key

\* Where the remaining attributes start in the root's parts.
FirstRemaining == IF "fill={color}" \in RootParts THEN 4 ELSE 3

\* C8: with props, the root's parts are width={size}, height={size}, then
\* fill={color} when fill is rewritten, then the remaining attributes in
\* insertion order, then {...props}, which is last and appears once.
C8_PartOrder ==
    Emitted(TRUE) =>
        /\ jsx.attrParts[1] = "width={size}"
        /\ jsx.attrParts[2] = "height={size}"
        /\ "fill={color}" \in RootParts => jsx.attrParts[3] = "fill={color}"
        /\ jsx.attrParts[Len(jsx.attrParts)] = "{...props}"
        /\ Cardinality({i \in 1..Len(jsx.attrParts) : jsx.attrParts[i] = "{...props}"}) = 1
        /\ \A i, j \in FirstRemaining..(Len(jsx.attrParts) - 1) :
              i < j => InsertionIndex(PartName(jsx.attrParts[i]))
                          < InsertionIndex(PartName(jsx.attrParts[j]))

\* A root with props whose fill is rewritten and which keeps two more
\* attributes, stroke-width before viewBox.
C8_Witness ==
    /\ Emitted(TRUE)
    /\ jsx.attrParts =
          <<"width={size}", "height={size}", "fill={color}", "strokeWidth={2}",
            "viewBox=\"0 0 24 24\"", "{...props}">>

\* C9: without props the root is emitted like any other element: every root
\* attribute by the generic formatting with its own value, no size, color or
\* spread part, and the declaration is `export function <name>()` without
\* props interface and without SVGProps import.
C9_NoProps ==
    Emitted(FALSE) =>
        /\ jsx.text = serializeChildJsx(parsed.root, "    ")
        /\ RootParts \cap {"width={size}", "height={size}", "fill={color}", "{...props}"} = {}
        /\ Get(parsed.root.attributes, "width") = <<"48">> => "width={48}" \in RootParts
        /\ Get(parsed.root.attributes, "height") = <<"24">> => "height={24}" \in RootParts
        /\ Get(parsed.root.attributes, "fill") = <<"red">> => "fill=\"red\"" \in RootParts
        /\ StartsWithAt(rawCode, 1, "export function " \o input.componentName \o "() {")
        /\ ~Contains(rawCode, "interface")
        /\ ~Contains(rawCode, "SVGProps")
        /\ ~Contains(rawCode, "{size}")
        /\ ~Contains(rawCode, "{color}")
        /\ ~Contains(rawCode, "{...props}")

\* A root without props that keeps its width, height and fill.
C9_Witness ==
    /\ Emitted(FALSE)
    /\ jsx.attrParts = <<"width={48}", "height={24}", "fill=\"red\"">>

\* A non-empty run of digits.
AllDigits(s) == Len(s) > 0 /\ \A i \in 1..Len(s) : Char(s, i) \in Digits

\* Digits, or digits, one dot and digits.
UnsignedDecimal(s) ==
    \/ AllDigits(s)
    \/ \E d \in 1..Len(s) :
          /\ Char(s, d) = "."
          /\ AllDigits(SubSeq(s, 1, d - 1))
          /\ AllDigits(SubSeq(s, d + 1, Len(s)))

\* An optional leading minus, digits, an optional dot with digits behind it,
\* and nothing else.
NumericLiteral(s) ==
    UnsignedDecimal(s) \/ (Char(s, 1) = "-" /\ UnsignedDecimal(SubSeq(s, 2, Len(s))))

\* C10: formatAttribute renders style as style={<object literal>} even when
\* the value looks numeric; any other attribute as name={value} exactly when
\* the value is an optional minus, digits and an optional dot with digits;
\* and as the quoted name="..." otherwise.
C10_FormatOrder ==
    (op = "formatAttribute" /\ pc = "returned") =>
        /\ input.key = "style" =>
              /\ StartsWithAt(formatted, 1, "style={{")
              /\ StartsWithAt(formatted, Len(formatted) - 1, "}}")
        /\ (input.key # "style" /\ NumericLiteral(input.value)) =>
              formatted = input.key \o "={" \o input.value \o "}"
        /\ (input.key # "style" /\ ~NumericLiteral(input.value)) =>
              /\ StartsWithAt(formatted, 1, input.key \o "=\"")
              /\ Char(formatted, Len(formatted)) = "\""
              /\ ~StartsWithAt(formatted, 1, input.key \o "={")

\* formatAttribute("style", "10") has returned an object literal.
C10_Witness ==
    /\ op = "formatAttribute"
    /\ pc = "returned"
    /\ input.key = "style"
    /\ input.value = "10"
    /\ formatted = "style={{}}"

-----------------------------------------------------------------------------
(* Properties of the transformer and of the emitters' attribute values *)

\* What one character of an attribute value is written as in JSX.
JsxEscapedChar(c) ==
    CASE c = "&" -> "&amp;"
      [] c = "\"" -> "&quot;"
      [] c = "<" -> "&lt;"
      [] c = ">" -> "&gt;"
      [] c = "{" -> "&#123;"
      [] c = "}" -> "&#125;"
      [] OTHER -> c

JsxEscaped(s) == Join([i \in 1..Len(s) |-> JsxEscapedChar(Char(s, i))], "")

\* s has none of the characters of the set chars.
FreeOf(s, chars) == \A i \in 1..Len(s) : Char(s, i) \notin chars

\* formatAttribute has emitted the value in quotes.
QuotedByFormatAttribute ==
    /\ op = "formatAttribute"
    /\ pc = "returned"
    /\ StartsWithAt(formatted, 1, input.key \o "=\"")

\* The text between the quotes of key="...".
QuotedValue(text, key) == SubSeq(text, Len(key) + 3, Len(text) - 1)

\* The attributes serializeToJsx emits on the element it is called with.
EmittedJsxAttrs ==
    jsxAttrs(input.element, input.options, TRUE,
             transformAttributes(input.element.attributes, "react"))

\* serializeToJsx emits the entry in quotes.
QuotedBySerializeToJsx(entry) ==
    ~(useExpressionsOf(input.options)
        /\ (entry.name = "style" \/ isNumericValue(entry.value)))

\* C11: every string-valued attribute the JSX emitters write, formatAttribute
\* of ReactGenerator and serializeToJsx of the transformer alike, is the
\* value with & " < > { } replaced by their entities, so that the quoted
\* text has no raw { } " < >, and a single quote stays as it is.
C11_JsxValuesEscaped ==
    /\ QuotedByFormatAttribute =>
          /\ QuotedValue(formatted, input.key) = JsxEscaped(input.value)
          /\ FreeOf(QuotedValue(formatted, input.key), {"{", "}", "\"", "<", ">"})
    /\ (op = "serializeToJsx" /\ pc = "returned" /\ input.element.type = "element") =>
          \A i \in 1..Len(EmittedJsxAttrs) :
              QuotedBySerializeToJsx(EmittedJsxAttrs[i]) =>
                  /\ Contains(returned,
                              " " \o EmittedJsxAttrs[i].name \o "=\""
                                  \o JsxEscaped(EmittedJsxAttrs[i].value) \o "\"")
                  /\ FreeOf(JsxEscaped(EmittedJsxAttrs[i].value),
                            {"{", "}", "\"", "<", ">"})

\* The keys the translation table is written with.
TableKeys == {SVG_TO_REACT_ATTRS[i][1] : i \in 1..Len(SVG_TO_REACT_ATTRS)}

\* The table's entry for one of its keys k: the value written last for it.
TableValueOf(k) ==
    SVG_TO_REACT_ATTRS[CHOOSE i \in 1..Len(SVG_TO_REACT_ATTRS) :
        /\ SVG_TO_REACT_ATTRS[i][1] = k
        /\ \A j \in (i + 1)..Len(SVG_TO_REACT_ATTRS) : SVG_TO_REACT_ATTRS[j][1] # k][2]

\* C12: transformAttributeName(name, "react") returns the table's entry for
\* every key of the translation table and the name itself for every name
\* that is no key of it, such as d and viewBox; for "vue" it returns every
\* name unchanged.
C12_TransformAttributeName ==
    (op = "transformAttributeName" /\ pc = "returned") =>
        IF input.framework = "react" /\ input.attrName \in TableKeys
        THEN returned = TableValueOf(input.attrName)
        ELSE returned = input.attrName

\* transformAttributes has returned.
TransformAttributesDone == op = "transformAttributes" /\ pc = "returned"

\* The name the i-th source attribute is stored under.
TargetOf(i) == transformAttributeName(input.attributes[i].name, input.framework)

\* The last source attribute stored under the target of the i-th.
LastWithTargetOf(i) ==
    CHOOSE j \in 1..Len(input.attributes) :
        /\ TargetOf(j) = TargetOf(i)
        /\ \A k \in (j + 1)..Len(input.attributes) : TargetOf(k) # TargetOf(i)

\* Two source attributes are stored under the same name.
Collision ==
    \E i, j \in 1..Len(input.attributes) : i # j /\ TargetOf(i) = TargetOf(j)

\* C13: transformAttributes stores every source attribute under its target
\* name. A target that several source names map to, as class and className
\* do, is in the result once, with the value of the last of them in
\* insertion order; when no two source names collide the result has as many
\* entries as the source and every value is unchanged.
C13_LastWriteWins ==
    TransformAttributesDone =>
        /\ \A i \in 1..Len(input.attributes) :
              /\ Cardinality({k \in 1..Len(returned) : returned[k].name = TargetOf(i)}) = 1
              /\ Get(returned, TargetOf(i)) = <<input.attributes[LastWithTargetOf(i)].value>>
        /\ \A k \in 1..Len(returned) :
              \E i \in 1..Len(input.attributes) : returned[k].name = TargetOf(i)
        /\ ~Collision =>
              /\ Len(returned) = Len(input.attributes)
              /\ \A i \in 1..Len(input.attributes) :
                    returned[i].value = input.attributes[i].value

\* class and className, in this order, both given to the react transform:
\* className is there once and holds the value of the later one.
C13_Witness ==
    /\ TransformAttributesDone
    /\ input.framework = "react"
    /\ input.attributes = <<[name |-> "class", value |-> "a"],
                            [name |-> "className", value |-> "b"]>>
    /\ returned = <<[name |-> "className", value |-> "b"]>>

\* One of the two style transforms of the JSX emitters has returned.
JsxStyleParsed ==
    /\ op = "parseStyle"
    /\ pc = "returned"
    /\ input.parser \in {"parseStyleToObject", "parseStyleString"}

\* s is what a number prints as: Infinity, or a numeric literal whose integer
\* part has no needless leading zero, whose fraction does not end in zero,
\* and which is not the negative zero.
PrintsAsItself(s) ==
    \/ s \in {"Infinity", "-Infinity"}
    \/ /\ NumericLiteral(s)
       /\ s # "-0"
       /\ ~StartsWithAt(s, 1, "00") /\ ~StartsWithAt(s, 1, "-00")
       /\ \A d \in {"1", "2", "3", "4", "5", "6", "7", "8", "9"} :
              ~StartsWithAt(s, 1, "0" \o d) /\ ~StartsWithAt(s, 1, "-0" \o d)
       /\ Contains(s, ".") => Char(s, Len(s)) # "0"

\* name has no hyphen with a lower-case letter behind it.
CamelCased(name) ==
    \A i \in 1..Len(name) : Char(name, i) = "-" => Char(name, i + 1) \notin LowerLetters

\* C14: the style transform of the JSX emitters maps each camel-cased
\* property to its value, which is a number exactly when the trimmed text
\* is what that number prints as: "2" becomes the number 2, while "2px",
\* "02" and "2.0" stay strings; "fill: red; stroke-width: 2" becomes
\* {fill: "red", strokeWidth: 2}.
C14_StyleValues ==
    JsxStyleParsed =>
        /\ \A k \in 1..Len(returned.styleObj) :
              /\ CamelCased(returned.styleObj[k].name)
              /\ returned.styleObj[k].value.text = Trim(returned.styleObj[k].value.text)
              /\ returned.styleObj[k].value.number
                    <=> PrintsAsItself(returned.styleObj[k].value.text)
              /\ returned.styleObj[k].value.text = "2" => returned.styleObj[k].value.number
              /\ returned.styleObj[k].value.text \in {"2px", "02", "2.0"}
                    => ~returned.styleObj[k].value.number
        /\ input.styleString = "fill: red; stroke-width: 2" =>
              returned.styleObj =
                  <<[name |-> "fill", value |-> [number |-> FALSE, text |-> "red"]],
                    [name |-> "strokeWidth", value |-> [number |-> TRUE, text |-> "2"]]>>

\* The example of the claim: stroke-width: 2 has become the number 2 under
\* strokeWidth.
C14_Witness ==
    /\ JsxStyleParsed
    /\ input.styleString = "fill: red; stroke-width: 2"
    /\ Get(returned.styleObj, "strokeWidth") = <<[number |-> TRUE, text |-> "2"]>>

\* A style parser has returned.
StyleParsed == op = "parseStyle" /\ pc = "returned"

\* The declarations of the style string.
Declarations == Split(input.styleString, ";")

\* What stands before the first colon of a declaration, trimmed.
PropertyText(d) == Trim(SubSeq(d, 1, IndexOfFrom(d, ":", 1) - 1))

\* What the parser reads as the value of a declaration with a colon: all
\* that follows the first colon, or, for transformStyleToReact, what stands
\* between the first colon and the second.
ValueText(d) ==
    IF input.parser = "transformStyleToReact" THEN Trim(Split(d, ":")[2])
    ELSE Trim(SubSeq(d, IndexOfFrom(d, ":", 1) + 1, Len(d)))

\* The declaration has a colon, a property and a value.
WellFormed(d) == Contains(d, ":") /\ PropertyText(d) # "" /\ ValueText(d) # ""

\* The last well-formed declaration that names the property of the i-th.
LastDeclarationOf(i) ==
    CHOOSE j \in 1..Len(Declarations) :
        /\ WellFormed(Declarations[j])
        /\ camelCase(PropertyText(Declarations[j])) = camelCase(PropertyText(Declarations[i]))
        /\ \A k \in (j + 1)..Len(Declarations) :
              WellFormed(Declarations[k]) =>
                  camelCase(PropertyText(Declarations[k]))
                      # camelCase(PropertyText(Declarations[i]))

-----------------------------------------------------------------------------
(* Properties of serializeSvgElement *)

\* serializeSvgElement has returned the text of an element.
ElementSerialized ==
    /\ op = "serializeSvgElement"
    /\ pc = "returned"
    /\ input.element.type = "element"

\* What one character of an attribute value is written as in XML.
XmlEscapedChar(c) ==
    CASE c = "&" -> "&amp;"
      [] c = "<" -> "&lt;"
      [] c = ">" -> "&gt;"
      [] c = "\"" -> "&quot;"
      [] c = "'" -> "&apos;"
      [] OTHER -> c

XmlEscaped(s) == Join([i \in 1..Len(s) |-> XmlEscapedChar(Char(s, i))], "")

\* Where the value of the attribute key begins in text, behind key=".
ValueStart(text, key) ==
    IndexOfFrom(text, " " \o key \o "=\"", 1) + Len(key) + 3

\* The value of the attribute key as text has it: from behind key=" up to
\* the next double quote.
ValueIn(text, key) ==
    SubSeq(text, ValueStart(text, key),
           IndexOfFrom(text, "\"", ValueStart(text, key)) - 1)

\* C16: serializeSvgElement writes every attribute value with the five XML
\* replacements, the ampersand first: the written value has no raw < > " ',
\* each of these and each & of the value has become its entity once, and
\* entity decoding gives back the value.
C16_XmlValuesEscaped ==
    ElementSerialized =>
        \A i \in 1..Len(input.element.attributes) :
            /\ IndexOfFrom(returned, " " \o input.element.attributes[i].name \o "=\"", 1) > 0
            /\ FreeOf(ValueIn(returned, input.element.attributes[i].name),
                      {"<", ">", "\"", "'"})
            /\ ValueIn(returned, input.element.attributes[i].name)
                  = XmlEscaped(input.element.attributes[i].value)
            /\ saxDecode(ValueIn(returned, input.element.attributes[i].name), 1, "")
                  = [err |-> FALSE, value |-> input.element.attributes[i].value]

\* An element whose title has all five characters, and braces: the written
\* value has the five entities and the braces as they were.
C16_Witness ==
    /\ ElementSerialized
    /\ Get(input.element.attributes, "title") = <<"a&b<c>\"d\"'e'{f}">>
    /\ ValueIn(returned, "title") = "a&amp;b&lt;c&gt;&quot;d&quot;&apos;e&apos;{f}"

\* The attributes of an open tag: each as a space and key="value", in the
\* mapping's insertion order.
RECURSIVE AttributeText(_, _)
AttributeText(attributes, i) ==
    IF i > Len(attributes) THEN ""
    ELSE " " \o attributes[i].name \o "=\"" \o XmlEscaped(attributes[i].value) \o "\""
             \o AttributeText(attributes, i + 1)

RECURSIVE Shape(_, _)
\* The children of an element one after the other at level n, a line break
\* between two of them.
RECURSIVE ShapeOfAll(_, _, _)
ShapeOfAll(children, i, n) ==
    IF i > Len(children) THEN ""
    ELSE (IF i > 1 THEN "\n" ELSE "") \o Shape(children[i], n)
             \o ShapeOfAll(children, i + 1, n)

\* The text of an element at level n: a text node is its raw value; an
\* element is on one line when it has no children, and otherwise has an
\* opening and a closing line, both behind 2*n spaces, around its children
\* at level n + 1.
Shape(e, n) ==
    IF e.type = "text" THEN e.value
    ELSE IF e.children = <<>>
    THEN Repeat(" ", 2 * n) \o "<" \o e.name \o AttributeText(e.attributes, 1) \o " />"
    ELSE Repeat(" ", 2 * n) \o "<" \o e.name \o AttributeText(e.attributes, 1) \o ">\n"
             \o ShapeOfAll(e.children, 1, n + 1) \o "\n"
             \o Repeat(" ", 2 * n) \o "</" \o e.name \o ">"

\* C17: serializeSvgElement(e, n) returns the raw value of a text node; for
\* an element without children 2*n spaces, <name, a space and key="value"
\* for each attribute in insertion order, and " />"; for an element with
\* children the opening line <name ...> and the closing line </name>, each
\* behind 2*n spaces, around the children serialized at level n + 1 and
\* joined by line breaks.
C17_SerializedShape ==
    (op = "serializeSvgElement" /\ pc = "returned") =>
        returned = Shape(input.element, input.indent)

\* An element with an element child, serialized at level 1: the root stands
\* behind two spaces and the child behind four.
C17_Witness ==
    /\ ElementSerialized
    /\ input.indent = 1
    /\ input.element.attributes = <<[name |-> "class", value |-> "icon"]>>
    /\ returned = "  <svg class=\"icon\">\n    <path d=\"M5 12h14\" />\n  </svg>"

-----------------------------------------------------------------------------
(* The tree is not written to *)

\* ReactGenerator has emitted the parsed tree.
GeneratorEmitted == op = "generate" /\ Len(calls) >= 3

\* The transformer or an emitter has run on a tree.
TreeUsed ==
    \/ op \in {"transformAttributes", "serializeSvgElement", "serializeToJsx"}
          /\ pc = "returned"
    \/ GeneratorEmitted

\* The attribute objects of the tree as they were before the call.
TreeObjectsBefore ==
    IF op = "transformAttributes" THEN <<input.attributes>>
    ELSE IF op = "generate" THEN AttributeObjects(parsed.root)
    ELSE AttributeObjects(input.element)

\* C18: the transformer and the emitters write to no object of the tree:
\* after transformAttributes, serializeSvgElement, serializeToJsx and the
\* emission of ReactGenerator every attribute mapping of the tree is what it
\* was before, and the deletes of the root rewrite have acted on an object
\* that transformAttributes made, which has the root's attributes under
\* their target names without those deleted.
C18_TreeNotMutated ==
    TreeUsed =>
        /\ Len(heap) >= Len(TreeObjectsBefore)
        /\ SubSeq(heap, 1, Len(TreeObjectsBefore)) = TreeObjectsBefore
        /\ op \in {"transformAttributes", "generate", "serializeToJsx"} =>
              \A i \in 1..Len(TreeObjectsBefore) :
                  \E r \in (Len(TreeObjectsBefore) + 1)..Len(heap) :
                      \/ heap[r] = transformAttributes(TreeObjectsBefore[i],
                                       IF op = "transformAttributes"
                                       THEN input.framework ELSE "react")
                      \/ /\ i = 1
                         /\ GeneratorEmitted
                         /\ heap[r] = deleteFill(deleteSize(
                                transformAttributes(TreeObjectsBefore[1], "react")))

\* A root with a width has been emitted with props: the object the root
\* rewrite deleted from has no width, and the root of the tree still has it.
C18_Witness ==
    /\ GeneratorEmitted
    /\ input.props
    /\ Has(parsed.root.attributes, "width")
    /\ Has(heap[1], "width")
    /\ ~Has(heap[Len(AttributeObjects(parsed.root)) + 1], "width")
    /\ ~Contains(jsx.openTag, "width=\"")

-----------------------------------------------------------------------------
(* Properties of generate *)

\* The functions called so far, in the order of the calls.
CalledFns == [i \in 1..Len(calls) |-> calls[i].fn]

\* The steps of ReactGenerator.generate in their order.
Pipeline == <<"optimizeSvg", "parseSvg", "generateComponent", "format">>

\* parseSvg has thrown inside generate.
ParseFailed == op = "generate" /\ parsed # None /\ ~parsed.ok

\* C19: ReactGenerator.generate calls the optimizer, the parser, the emitter
\* and the formatter in this order and each once: the parser gets what the
\* optimizer returned, the formatter gets the emitter's raw code and nothing
\* else, and what it returns is {code, ".tsx", "react"}. When parsing fails
\* the formatter is not called and nothing is returned. VueGenerator.generate
\* calls neither the optimizer nor the formatter and returns
\* {code, ".vue", "vue"}.
C19_Pipeline ==
    /\ op = "generate" =>
          /\ Len(calls) <= Len(Pipeline)
          /\ CalledFns = SubSeq(Pipeline, 1, Len(calls))
          /\ Len(calls) >= 1 => calls[1].arg = input.svgContent
          /\ Len(calls) >= 2 => calls[2].arg = optimizedSvg
          /\ Len(calls) >= 4 => calls[4].arg = rawCode
          /\ pc = "returned" =>
                /\ CalledFns = Pipeline
                /\ result.extension = ".tsx"
                /\ result.framework = "react"
                /\ \E code \in FormatterAnswers(rawCode) : result.code = TrimEnd(code)
          /\ pc # "returned" => result = None
    /\ ParseFailed =>
          /\ pc = "thrown"
          /\ CalledFns = <<"optimizeSvg", "parseSvg">>
          /\ result = None
    /\ (op = "vueGenerate" /\ pc = "returned") =>
          /\ \A i \in 1..Len(calls) : calls[i].fn \notin {"optimizeSvg", "format"}
          /\ result.extension = ".vue"
          /\ result.framework = "vue"
          /\ result.code = vueGenerateComponent(input.componentName, input.svgContent,
                                                propsOf(input))

\* generate has returned: the four calls were made and the record is there.
C19_Witness ==
    /\ op = "generate"
    /\ pc = "returned"
    /\ CalledFns = Pipeline
    /\ result.extension = ".tsx"
    /\ Contains(result.code, "TestIcon")

\* VueGenerator.generate has returned.
VueGenerated == op = "vueGenerate" /\ pc = "returned"

\* The template block around the markup as it was given.
TemplateBlock == "<template>\n  " \o input.svgContent \o "\n</template>\n"

\* What the code has before its last Len(TemplateBlock) characters.
BeforeTemplate == SubSeq(result.code, 1, Len(result.code) - Len(TemplateBlock))

\* props is on: given as true, or not given.
PropsEnabled == input.props = <<>> \/ input.props = <<TRUE>>

\* C20: the Vue code ends with one template block that holds the input
\* markup verbatim. With props on, which is the default, a script block that
\* declares size with the default 24 and color with the default
\* "currentColor" stands before the template and nothing of it is bound into
\* the markup; with props off the code is the template block alone, without
\* a script block.
C20_VueTemplate ==
    VueGenerated =>
        /\ Len(result.code) >= Len(TemplateBlock)
        /\ SubSeq(result.code, Len(result.code) - Len(TemplateBlock) + 1, Len(result.code))
              = TemplateBlock
        /\ ~Contains(BeforeTemplate, "<template")
        /\ PropsEnabled =>
              /\ StartsWithAt(BeforeTemplate, 1, "<script setup")
              /\ StartsWithAt(BeforeTemplate, Len(BeforeTemplate) - 10, "</script>\n\n")
              /\ Contains(BeforeTemplate, "size?: number | string;")
              /\ Contains(BeforeTemplate, "color?: string;")
              /\ Contains(BeforeTemplate, "size: 24,")
              /\ Contains(BeforeTemplate, "color: \"currentColor\",")
        /\ ~PropsEnabled =>
              /\ BeforeTemplate = ""
              /\ result.code = TemplateBlock

\* generate was called without props and with markup that has blank space
\* around it: the script block is there and the markup is in the template
\* as it was.
C20_Witness ==
    /\ VueGenerated
    /\ input.props = <<>>
    /\ input.svgContent = "  <svg/>\n"
    /\ StartsWithAt(result.code, 1, "<script setup lang=\"ts\">")
    /\ Contains(result.code, "<template>\n    <svg/>\n\n</template>\n")

-----------------------------------------------------------------------------
(* Properties of the command line *)

\* The frameworks of the run.
CliFrameworks == parseFrameworks(input.framework)

\* The extension of the component a generator makes.
ExtensionOf(framework) == IF framework = "vue" THEN ".vue" ELSE ".tsx"

\* The run writes into a directory.
DirectoryOutput == op = "cli" /\ ~isOutputFile(InitialFs, input.output)

\* The content of the input file at path is a document parseSvg accepts.
ValidInput(path) == parseSvg(Get(InitialFs.files, path)[1]).ok

\* The command has exited because generate threw one of parseSvg's errors.
ExitedOnParseError ==
    /\ op = "cli"
    /\ pc = "exit1"
    /\ result.error \in {InvalidDocument, MissingRootElement}

\* C21: when one file of a batch fails with InvalidDocument or
\* MissingRootElement, the batch is not aborted: once the command has ended,
\* the component of every other file whose document is valid is in the
\* output directory, for each framework.
C21_BatchIsolated ==
    (ExitedOnParseError /\ DirectoryOutput) =>
        \A i \in 1..Len(svgPaths) :
            (i # cursor.file /\ ValidInput(svgPaths[i])) =>
                \A k \in 1..Len(CliFrameworks) :
                    Has(fs.files,
                        join(input.output,
                             componentNameOf(input, svgPaths, svgPaths[i])
                                 \o ExtensionOf(CliFrameworks[k])))

\* writeOutput was called and has returned or thrown.
WriteOutputDone ==
    /\ op = "cli"
    /\ pc \in {"done", "exit1"}
    /\ Len(svgPaths) > 0
    /\ cursor.file > Len(svgPaths)

\* The run writes into a file.
FileOutput == op = "cli" /\ isOutputFile(InitialFs, input.output)

\* The content the output file had before the run, "" when it did not exist.
ContentBefore ==
    IF Has(InitialFs.files, input.output) THEN Get(InitialFs.files, input.output)[1]
    ELSE ""

\* The files other than the output file are as they were.
OthersUntouched ==
    /\ fs.dirs = InitialFs.dirs
    /\ Delete(fs.files, input.output) = Delete(InitialFs.files, input.output)

\* C22: with a file as output and SVG files x frameworks other than 1,
\* writeOutput fails and the file system is as it was; with exactly one
\* result the output file holds its code, behind the content the file had
\* and an empty line when it had some, and nothing else is written.
C22_FileOutput ==
    (WriteOutputDone /\ FileOutput) =>
        IF Len(svgPaths) * Len(CliFrameworks) # 1
        THEN pc = "exit1" /\ fs = InitialFs
        ELSE /\ pc = "done"
             /\ OthersUntouched
             /\ Get(fs.files, input.output) =
                    << (IF TrimEnd(ContentBefore) = "" THEN ContentBefore
                        ELSE ContentBefore \o "\n\n")
                       \o generated[1].results[1].code >>

\* One SVG and one framework, written behind the old content of a file.
C22_Witness ==
    /\ WriteOutputDone
    /\ pc = "done"
    /\ input.output = "/out/Old.tsx"
    /\ Len(svgPaths) * Len(CliFrameworks) = 1
    /\ StartsWithAt(Get(fs.files, "/out/Old.tsx")[1], 1, "// old\n\n\nimport")

-----------------------------------------------------------------------------
(* Properties of the optimizer's configuration *)

\* buildConfig has returned.
ConfigBuilt == op = "buildConfig" /\ pc = "returned"

\* The plugins of the configuration that was built.
Plugins == {returned.plugins[i] : i \in 1..Len(returned.plugins)}

\* C23: for every combination of options the plugin list starts with the
\* default preset and ends with removeXMLNS, holds removeComments,
\* removeMetadata and cleanupIds exactly when the option is not false, and
\* removeTitle, removeDesc and removeDimensions exactly when the option is
\* true.
C23_OptimizerConfig ==
    ConfigBuilt =>
        /\ returned.plugins[1] = "preset-default"
        /\ returned.plugins[Len(returned.plugins)] = "removeXMLNS"
        /\ "removeComments" \in Plugins <=> input.options.removeComments # <<FALSE>>
        /\ "removeMetadata" \in Plugins <=> input.options.removeMetadata # <<FALSE>>
        /\ "cleanupIds" \in Plugins <=> input.options.cleanupIds # <<FALSE>>
        /\ "removeTitle" \in Plugins <=> input.options.removeTitle = <<TRUE>>
        /\ "removeDesc" \in Plugins <=> input.options.removeDesc = <<TRUE>>
        /\ "removeDimensions" \in Plugins <=> input.options.removeDimensions = <<TRUE>>

\* A configuration built from options that switch a default off and leave
\* the others out.
C23_Witness ==
    /\ ConfigBuilt
    /\ input.options.removeComments = <<FALSE>>
    /\ input.options.removeTitle = <<>>
    /\ input.options.removeDesc = <<TRUE>>
    /\ returned.plugins = <<"preset-default", "removeMetadata", "removeDesc",
                            "cleanupIds", "removeXMLNS">>

-----------------------------------------------------------------------------
(* Properties of transformStyleToReact *)

\* The exported transformStyleToReact has returned.
StyleToReactDone ==
    /\ op = "parseStyle"
    /\ pc = "returned"
    /\ input.parser = "transformStyleToReact"

\* The value of a declaration: all that follows its first colon, trimmed.
DeclaredValue(d) == Trim(SubSeq(d, IndexOfFrom(d, ":", 1) + 1, Len(d)))

\* The declaration gives a property a value.
Declares(d) == Contains(d, ":") /\ PropertyText(d) # "" /\ DeclaredValue(d) # ""

\* The last declaration that gives a value to the property of the i-th.
LastDeclaring(i) ==
    CHOOSE j \in 1..Len(Declarations) :
        /\ Declares(Declarations[j])
        /\ camelCase(PropertyText(Declarations[j])) = camelCase(PropertyText(Declarations[i]))
        /\ \A k \in (j + 1)..Len(Declarations) :
              Declares(Declarations[k]) =>
                  camelCase(PropertyText(Declarations[k]))
                      # camelCase(PropertyText(Declarations[i]))

\* C24: transformStyleToReact returns the JSON text of an object that maps
\* the camel-cased property of each declaration to the declaration's trimmed
\* value, as a string, and holds nothing else; a semicolon at the end adds
\* no entry, and the empty string gives {}.
C24_StyleToReactJson ==
    StyleToReactDone =>
        /\ returned.json = <<JSONStringify(returned.styleObj)>>
        /\ \A k \in 1..Len(returned.styleObj) :
              /\ ~returned.styleObj[k].value.number
              /\ \E i \in 1..Len(Declarations) :
                    /\ Declares(Declarations[i])
                    /\ returned.styleObj[k].name = camelCase(PropertyText(Declarations[i]))
        /\ \A i \in 1..Len(Declarations) :
              Declares(Declarations[i]) =>
                  Get(returned.styleObj, camelCase(PropertyText(Declarations[i])))
                      = <<[number |-> FALSE,
                           text |-> DeclaredValue(Declarations[LastDeclaring(i)])]>>
        /\ transformStyleToReact(input.styleString \o ";") = returned.json[1]
        /\ input.styleString = "" => returned.json = <<"{}">>

-----------------------------------------------------------------------------
(* Properties of filenameToComponentName *)

\* filenameToComponentName has returned.
ComponentNamed == op = "filenameToComponentName" /\ pc = "returned"

\* s ends with p.
EndsWith(s, p) == StartsWithAt(s, Len(s) - Len(p) + 1, p)

\* Where the last / or \ of the file name stands, 0 when it has none.
LastSeparator ==
    CHOOSE i \in 0..Len(input.filename) :
        /\ i > 0 => Char(input.filename, i) \in {"/", "\\"}
        /\ \A j \in (i + 1)..Len(input.filename) :
              Char(input.filename, j) \notin {"/", "\\"}

\* The file name without its directories.
FileOnly == SubSeq(input.filename, LastSeparator + 1, Len(input.filename))

\* The file name without its directories and without .svg at its end.
BaseName ==
    IF EndsWith(ToLowerCase(FileOnly), ".svg")
    THEN SubSeq(FileOnly, 1, Len(FileOnly) - 4)
    ELSE FileOnly

\* The letters of the base name: lower case, without - _ and blanks.
BaseLetters ==
    ToLowerCase(ReplaceAll(ReplaceAll(ReplaceAll(BaseName, "-", ""), "_", ""), " ", ""))

\* C25 as it was stated: the name filenameToComponentName returns always
\* ends with Icon and never ends with IconIcon.
C25_IconOnce ==
    ComponentNamed => EndsWith(returned, "Icon") /\ ~EndsWith(returned, "IconIcon")

\* C25, amended: the name is made of the parts of the base name, each with
\* its first letter in upper case and the rest in lower case; it ends with
\* Icon, and Icon is appended exactly when the joined parts do not end with
\* Icon already, so it ends with IconIcon only when the parts themselves do.
C25_ComponentName ==
    ComponentNamed =>
        /\ EndsWith(returned, "Icon")
        /\ \A i \in 1..Len(returned) :
              /\ Char(returned, i) \notin {"/", "\\", "-", "_", " "}
              /\ Char(returned, i) \in UpperLetters =>
                    \/ i = 1
                    \/ i > Len(BaseLetters)
                    \/ \E j \in 2..Len(BaseName) :
                          /\ Char(BaseName, j - 1) \in {"-", "_", " "}
                          /\ ToUpperChar(Char(BaseName, j)) = Char(returned, i)
        /\ Char(returned, 1) \notin LowerLetters
        /\ \/ ToLowerCase(returned) = BaseLetters
           \/ /\ ToLowerCase(returned) = BaseLetters \o "icon"
              /\ ~EndsWith(SubSeq(returned, 1, Len(returned) - 4), "Icon")

\* A name that has the suffix already: nothing is appended.
C25_Witness ==
    /\ ComponentNamed
    /\ input.filename = "arrow-icon.svg"
    /\ returned = "ArrowIcon"

-----------------------------------------------------------------------------
(* Properties of the elements below the root *)

RECURSIVE Layout(_, _)
\* The lines of an element at nesting level depth below the root: the
\* indent of the root is four spaces and each level adds two. A text node
\* is its raw value; an element has every attribute in the generic format
\* with its own value, its children in their order on the lines between its
\* tags, or none and then closes itself.
Layout(element, depth) ==
    IF element.type = "text" THEN Repeat(" ", 4 + 2 * depth) \o element.value
    ELSE Repeat(" ", 4 + 2 * depth) \o "<" \o element.name
         \o Join([i \in 1..Len(element.attributes) |->
                     " " \o formatAttribute(
                                transformAttributeName(element.attributes[i].name, "react"),
                                element.attributes[i].value)], "")
         \o (IF Len(element.children) = 0 THEN " />"
             ELSE ">\n"
                  \o Join([i \in 1..Len(element.children) |->
                              Layout(element.children[i], depth + 1)], "\n")
                  \o "\n" \o Repeat(" ", 4 + 2 * depth) \o "</" \o element.name \o ">")

\* What the emitter wrote behind the root's opening tag.
BelowRoot == SubSeq(jsx.text, 4 + Len(jsx.openTag) + 1, Len(jsx.text))

\* C26: with props, what stands behind the root's opening tag is the layout
\* of the root's children, in child order, each element below the root with
\* its own attribute values in the generic format, and it holds no
\* width={size}, height={size}, fill={color} or {...props}, also not on an
\* svg element nested in the root.
C26_RootOnlyRewrites ==
    Emitted(TRUE) =>
        /\ BelowRoot =
              IF Len(parsed.root.children) = 0 THEN " />"
              ELSE ">\n"
                   \o Join([i \in 1..Len(parsed.root.children) |->
                               Layout(parsed.root.children[i], 1)], "\n")
                   \o "\n    </svg>"
        /\ ~Contains(BelowRoot, "{size}")
        /\ ~Contains(BelowRoot, "{color}")
        /\ ~Contains(BelowRoot, "{...props}")

\* An svg element two levels below the root keeps its width, height and
\* fill.
C26_Witness ==
    /\ Emitted(TRUE)
    /\ Contains(jsx.text, "\n      <g fill=\"red\">\n        <svg width={1} height={2} fill=\"blue\" />\n")

-----------------------------------------------------------------------------
(* Properties of the names in the root's opening tag *)

\* How many parts of the root's opening tag set attribute `name`.
CountOf(name) ==
    Cardinality({i \in 1..Len(jsx.attrParts) : PartName(jsx.attrParts[i]) = name})

\* C27: with props, for every attribute mapping of the root, also one whose
\* width, height or fill is the empty string, no attribute name is set twice
\* in the root's opening tag: width once, height once, fill at most once.
C27_NamesOnce ==
    Emitted(TRUE) =>
        /\ CountOf("width") = 1
        /\ CountOf("height") = 1
        /\ CountOf("fill") <= 1
        /\ \A i, j \in 1..Len(jsx.attrParts) :
              i # j => PartName(jsx.attrParts[i]) # PartName(jsx.attrParts[j])

-----------------------------------------------------------------------------
(* Agreement of the style parsers *)

\* The two mappings have the same properties, each with the same value text:
\* a number and the string it prints as count as the same value.
SameStyles(a, b) ==
    /\ Keys(a) = Keys(b)
    /\ \A k \in Keys(a) : Get(a, k)[1].text = Get(b, k)[1].text

\* C28: for every style string, also one with a value that holds a colon,
\* transformStyleToReact builds the same properties with the same values,
\* up to numeric coercion, as parseStyleString and as parseStyleToObject.
C28_StyleParsersAgree ==
    StyleToReactDone =>
        /\ SameStyles(returned.styleObj, parseStyleString(input.styleString))
        /\ SameStyles(returned.styleObj, parseStyleToObject(input.styleString))

-----------------------------------------------------------------------------
(* Properties of the generator registry *)

\* The calls of registerGenerator so far that registered under framework f.
RegisteredUnder(f) ==
    {i \in 1..Len(calls) :
        calls[i].fn = "registerGenerator" /\ calls[i].arg.framework = f}

\* The generator registered last under framework f, the built-in one when
\* none was registered.
LastRegistered(f) ==
    IF RegisteredUnder(f) = {}
    THEN IF f = "react" THEN "ReactGenerator" ELSE "VueGenerator"
    ELSE calls[CHOOSE i \in RegisteredUnder(f) :
                   \A j \in RegisteredUnder(f) : j <= i].arg.name

\* C29: after any calls of registerGenerator and getAllGenerators, and
\* whatever their callers do to the Maps that getAllGenerators returned,
\* getGenerator is defined for "react" and for "vue" and returns the
\* generator registered last under the framework, the built-in one when
\* there is none, and getSupportedFrameworks returns the two frameworks.
C29_Registry ==
    op = "registry" =>
        /\ \A f \in {"react", "vue"} : getGenerator(maps, f) = <<LastRegistered(f)>>
        /\ getSupportedFrameworks(maps) = <<"react", "vue">>

\* A generator was registered under react, and a caller has emptied the Map
\* it got from getAllGenerators afterwards.
C29_Witness ==
    /\ op = "registry"
    /\ Len(calls) = 3
    /\ calls[1] = Call("registerGenerator", [framework |-> "react", name |-> "CustomReact"])
    /\ calls[2].fn = "getAllGenerators"
    /\ calls[3].fn = "clear"
    /\ maps[2] = <<>>
    /\ getGenerator(maps, "react") = <<"CustomReact">>

-----------------------------------------------------------------------------
(* Properties of the output directory *)

\* The path writeOutput writes result k of entry i to.
OutPath(i, k) ==
    join(input.output, generated[i].componentName \o generated[i].results[k].extension)

\* C30: with a directory as output, once writeOutput has returned, no two
\* results of different SVG files have the same path, and every result's
\* code is the content of the file at its path: none was overwritten.
C30_OwnOutputFile ==
    (WriteOutputDone /\ DirectoryOutput /\ pc = "done") =>
        \A i \in 1..Len(generated) : \A k \in 1..Len(generated[i].results) :
            /\ Get(fs.files, OutPath(i, k)) = <<generated[i].results[k].code>>
            /\ \A j \in 1..Len(generated) : \A l \in 1..Len(generated[j].results) :
                  i # j => OutPath(i, k) # OutPath(j, l)

=============================================================================
